---------------------------- MODULE Spec2Model ----------------------------
(***************************************************************************)
(* The sound-id page of merlin-go: the confidence-gating / species-unlock  *)
(* engine ("ClassificationResultsProcessorImpl" of MerlinPage.svelte).     *)
(*                                                                         *)
(* A SoundRecognition is modelled by its commonName and its confidence;    *)
(* confidences and thresholds are in hundredths (0.96 is 96), so that the  *)
(* comparisons of the code are integer comparisons.                        *)
(***************************************************************************)
EXTENDS Integers, Sequences, FiniteSets, TLC

VARIABLES
    thresholdPrefs,       \* the SoundIdConfig held for the session
    unlockedSpecies,      \* Set<string> of unlocked common names
    previousDetections,   \* the filtered batch stored by updateHistory
    recs,                 \* argument of the latest filterAndSortResults call
    filteredResults,      \* its local filteredResults
    history,              \* its local history (the map updateHistory returned)
    results,              \* the array it returned
    returned,             \* "idle" (no call in progress), "silent" (the call
                          \* took the early return) or "emitted"
    eventSource,          \* the detection stream: "null", or "connecting",
                          \* "open" or "retrying" (ReconnectingEventSource)
    \* the page around the engine
    startUp,              \* where startUp() is: "idle" (not called),
                          \* "awaiting" (the fetch), "settled" (about to
                          \* connect) or "done"
    fetch,                \* the request of fetchSoundIdConfig: "none",
                          \* "pending", "loaded" or "failed"
    destroyed,            \* the cleanup returned by onMount has run
    spectrogramEventSource, \* the spectrogram stream: "null" or "connecting"
    speciesSummary,       \* the MerlinSpeciesSummary[] shown, head first
    birdSinging,          \* indicatorCount and hearingCount
    lastLog,              \* level of the last entry the page logged for an
                          \* envelope: "none", "debug", "warn" or "error"
    event,                \* kind of the last envelope of the detection
                          \* stream: "none", "text", "value", "bare", "batch"
    emitted,              \* what filterAndSortResults returned for it
    delivered,            \* number of envelopes the 'merlin' listener got
    dropped,              \* number of them it dropped
    \* UiSpectrogramManager and the goroutines it starts
    apiController,        \* TRUE when the manager was built with a controller
    mutex,                \* the caller holding m.mutex, or "none"
    isRunning,            \* m.isRunning
    doneChan,             \* m.doneChan: NilChan or the number of a channel
    wg,                   \* the counter of m.wg
    chans,                \* number of done channels made so far
    closes,               \* per done channel: how many times it was closed
    mergedQuitChan,       \* per done channel: "none", "open" or "closed"
    ctx,                  \* per done channel: "none", "active" or "cancelled"
    worker,               \* per done channel, the publisher goroutine: "none",
                          \* "select", "received", "broadcast" or "exited"
    pc,                   \* per caller: where it is in its call, or "idle"
    call,                 \* per caller: the method it called last
    ret,                  \* per caller: what that call returned
    logged,               \* per caller: what that call logged
    made,                 \* per caller: the channel its call made, or NilChan
    overlap,              \* per caller: another Start/Stop/Restart ran during
                          \* its call
    \* the spectrogram frames
    spectrogramChan,      \* the frames in the channel, oldest first
    item,                 \* per publisher: the frame it received, or NoFrame
    producer,             \* the sender of the frames: "saturating" (keeps the
                          \* channel full of unnumbered frames) or
                          \* "numbering" (sends numbered frames, whose way is
                          \* recorded in produced, handed and failed)
    produced,             \* number of numbered frames sent into the channel
    handed,               \* the frames BroadcastSpectrogram was called with,
                          \* in the order of the calls
    failed,               \* the frames whose broadcast returned an error
    now,                  \* time.Now().Unix()
    warned,               \* the times of the publisher's warnings, in order
    \* the broadcaster behind apiController
    subscribers,          \* the registered subscribers
    received,             \* per subscriber: the values delivered to it
    outcome,              \* per subscriber: the outcome of the last broadcast
    sent,                 \* the values broadcast so far
    \* the dashboard page (desktop)
    freezeCount,          \* number of interactions that froze the updates
    pendingDetectionQueue, \* the detections kept for the end of the freeze
    updateQueue,          \* Map of species code to the detection to apply
    updateTimer,          \* TRUE while the debounce timer is set
    dailySummary,         \* the MerlinSpeciesSummary[] of the dashboard
    arrived,              \* the detections handleNewDetection got since the
                          \* updates were frozen, in order
    flushed               \* the detections the latest handleFreezeEnd handed
                          \* to processDetectionUpdate, in order

engineVars == <<thresholdPrefs, unlockedSpecies, previousDetections, recs,
                filteredResults, history, results, returned>>

pageVars == <<startUp, fetch, destroyed, spectrogramEventSource, speciesSummary,
              birdSinging, lastLog, event, emitted, delivered, dropped>>

\* the fields of the manager
fieldVars == <<isRunning, doneChan>>

\* the channels, contexts and goroutines of the publishers
publisherVars == <<wg, chans, closes, mergedQuitChan, ctx, worker>>

\* the callers of the manager
callerVars == <<pc, call, ret, logged, made, overlap>>

\* what a caller keeps besides its position
callerVarsButPc == <<call, ret, logged, made, overlap>>

\* the spectrogram channel and what is recorded of the frames
flowVars == <<spectrogramChan, item, producer, produced, handed, failed>>

\* the clock and the warnings logged
clockVars == <<now, warned>>

broadcasterVars == <<subscribers, received, outcome, sent>>

managerVars == <<apiController, mutex, fieldVars, publisherVars, callerVars,
                 flowVars, clockVars, broadcasterVars>>

\* the dashboard page (desktop)
dashboardVars == <<freezeCount, pendingDetectionQueue, updateQueue, updateTimer,
                   dailySummary, arrived, flushed>>

vars == <<engineVars, eventSource, pageVars, managerVars, dashboardVars>>

---------------------------------------------------------------------------
(* Bounds of the model *)

\* longest prediction batch handed to filterAndSortResults
MaxBatchLen == 3

\* longest sequence handed to updateHistory on its own
MaxHistoryLen == 2

\* most done channels a manager makes (Start calls that are not no-ops)
MaxRuns == 2

\* most frames the channel holds
QueueCap == 1

\* most numbered frames the producer sends
MaxItems == 2

\* most envelopes the detection stream delivers to the page
MaxEnvelopes == 2

\* longest list of predictions of a long frame
MaxPredictions == 4

\* most interactions that freeze the updates of the dashboard at once
MaxFreeze == 2

---------------------------------------------------------------------------
(* Inputs *)

SINGING_BIRD_NAME == "bird sp."

Species == {"Robin", "Wren"}

\* the names a recognition may carry: the sentinel, the species above and a
\* third species that only the long frames below carry
CommonNames == {SINGING_BIRD_NAME} \cup Species \cup {"Jay"}

\* confidences a classifier frame may carry, in hundredths
Confidences == {60, 80}

Rec(n, c) == [commonName |-> n, confidence |-> c]

\* the recognitions a frame is made of: the sentinel and Robin at either
\* confidence, Wren at the higher one
SoundRecognition ==
    [commonName : {SINGING_BIRD_NAME, "Robin"}, confidence : Confidences]
       \cup {Rec("Wren", 80)}

RECURSIVE SeqsUpTo(_, _)
SeqsUpTo(S, n) ==
    IF n = 0 THEN {<<>>}
    ELSE LET shorter == SeqsUpTo(S, n - 1)
         IN  shorter \cup {Append(s, x) : s \in {t \in shorter : Len(t) = n - 1}, x \in S}

Batches == SeqsUpTo(SoundRecognition, MaxBatchLen)

\* the settings the page may have loaded (or kept) for the session
Policies ==
    { [birdsingingthreshold |-> 80, initialthreshold |-> 70,
       unlockedthreshold |-> 50, mindetectionstounlock |-> 2],
      [birdsingingthreshold |-> 60, initialthreshold |-> 50,
       unlockedthreshold |-> 70, mindetectionstounlock |-> 1],
      [birdsingingthreshold |-> 80, initialthreshold |-> 60,
       unlockedthreshold |-> 30, mindetectionstounlock |-> 3] }

---------------------------------------------------------------------------
(* ThresholdPrefs *)

getBirdSingingThreshold(prefs) == prefs.birdsingingthreshold

getInitialThreshold(prefs) == prefs.initialthreshold

getUnlockedBirdThreshold(prefs) == prefs.unlockedthreshold

getMinDetectionsToUnlock(prefs) == prefs.mindetectionstounlock

---------------------------------------------------------------------------
(* ClassificationResultsProcessorImpl *)

\* variant: the set created empty
InitUnlockedSpecies_Empty == {}

\* let unlockedSpecies = new Set<string>([SINGING_BIRD_NAME])
InitUnlockedSpecies == {SINGING_BIRD_NAME}

\* let previousDetections = new Array<SoundRecognition>()
InitPreviousDetections == <<>>

isUnlocked(rec, unlocked) == rec.commonName \in unlocked

\* variant: the unlocked test made before the sentinel test
getMinConfidence_UnlockedFirst(rec, unlocked, prefs) ==
    IF isUnlocked(rec, unlocked) THEN getUnlockedBirdThreshold(prefs)
    ELSE IF rec.commonName = SINGING_BIRD_NAME THEN getBirdSingingThreshold(prefs)
    ELSE getInitialThreshold(prefs)

getMinConfidence(rec, unlocked, prefs) ==
    IF rec.commonName = SINGING_BIRD_NAME THEN getBirdSingingThreshold(prefs)
    ELSE IF isUnlocked(rec, unlocked) THEN getUnlockedBirdThreshold(prefs)
    ELSE getInitialThreshold(prefs)

\* variant: the sentinel kept whatever its confidence
filterByThreshold_SentinelKept(rs, unlocked, prefs) ==
    SelectSeq(rs, LAMBDA rec : \/ rec.commonName = SINGING_BIRD_NAME
                               \/ rec.confidence >= getMinConfidence(rec, unlocked, prefs))

\* variant: the confidence comparison left out, every recognition kept
filterByThreshold_KeepAll(rs, unlocked, prefs) == rs

filterByThreshold(rs, unlocked, prefs) ==
    SelectSeq(rs, LAMBDA rec : rec.confidence >= getMinConfidence(rec, unlocked, prefs))

\* variant: any recognition counts as bird song
containsBirdSinging_AnyRecognition(rs) == rs # <<>>

\* variant: the test inverted
containsBirdSinging_Inverted(rs) ==
    ~\E i \in 1..Len(rs) : rs[i].commonName = SINGING_BIRD_NAME

\* variant: an empty batch passes
containsBirdSinging_EmptyPasses(rs) ==
    rs = <<>> \/ \E i \in 1..Len(rs) : rs[i].commonName = SINGING_BIRD_NAME

containsBirdSinging(rs) ==
    \E i \in 1..Len(rs) : rs[i].commonName = SINGING_BIRD_NAME

\* a Map<string, number> read with `get(name) || 0`
EmptyHistory == [n \in CommonNames |-> 0]

\* variant: the map entry set to 1 instead of incremented
RECURSIVE countInto_SetOne(_, _)
countInto_SetOne(h, rs) ==
    IF rs = <<>> THEN h
    ELSE LET name == Head(rs).commonName
         IN  countInto_SetOne([h EXCEPT ![name] = 1], Tail(rs))

\* one loop of updateHistory: count every recognition of rs into the map h
RECURSIVE countInto(_, _)
countInto(h, rs) ==
    IF rs = <<>> THEN h
    ELSE LET name == Head(rs).commonName
         IN  countInto([h EXCEPT ![name] = h[name] + 1], Tail(rs))

\* variant: the previous batch left out of the count
updateHistory_CurrentOnly(previous, rs) == countInto(EmptyHistory, rs)

\* the map updateHistory returns (it also stores rs as previousDetections)
updateHistory(previous, rs) == countInto(countInto(EmptyHistory, previous), rs)

\* variant: any count unlocks
unlock_AnyCount(commonName, h, unlocked, prefs) ==
    IF h[commonName] >= 1
    THEN unlocked \cup {commonName}
    ELSE unlocked

\* variant: one detection more than configured is needed
unlock_Strict(commonName, h, unlocked, prefs) ==
    IF h[commonName] > getMinDetectionsToUnlock(prefs)
    THEN unlocked \cup {commonName}
    ELSE unlocked

unlock(commonName, h, unlocked, prefs) ==
    IF h[commonName] >= getMinDetectionsToUnlock(prefs)
    THEN unlocked \cup {commonName}
    ELSE unlocked

\* variant: the set rebuilt from the current batch
updateUnlockedSpecies_Rebuild(rs, h, unlocked, prefs) ==
    {SINGING_BIRD_NAME} \cup
       {rs[i].commonName : i \in {j \in 1..Len(rs) :
                                    h[rs[j].commonName] >= getMinDetectionsToUnlock(prefs)}}

RECURSIVE updateUnlockedSpecies(_, _, _, _)
updateUnlockedSpecies(rs, h, unlocked, prefs) ==
    IF rs = <<>> THEN unlocked
    ELSE LET rec == Head(rs)
             next == IF ~isUnlocked(rec, unlocked)
                     THEN unlock(rec.commonName, h, unlocked, prefs)
                     ELSE unlocked
         IN  updateUnlockedSpecies(Tail(rs), h, next, prefs)

\* variant: the comparator with its sign flipped (b.confidence - a.confidence)
RECURSIVE insertByConfidence_Descending(_, _)
insertByConfidence_Descending(sorted, rec) ==
    IF sorted = <<>> THEN <<rec>>
    ELSE IF rec.confidence - Head(sorted).confidence > 0
         THEN <<rec>> \o sorted
         ELSE <<Head(sorted)>> \o insertByConfidence_Descending(Tail(sorted), rec)

\* results.sort((a, b) => a.confidence - b.confidence): Array.prototype.sort
\* is stable, so an element goes after every element that is not greater
RECURSIVE insertByConfidence(_, _)
insertByConfidence(sorted, rec) ==
    IF sorted = <<>> THEN <<rec>>
    ELSE IF Head(sorted).confidence - rec.confidence > 0
         THEN <<rec>> \o sorted
         ELSE <<Head(sorted)>> \o insertByConfidence(Tail(sorted), rec)

RECURSIVE sortByConfidence(_)
sortByConfidence(rs) ==
    IF rs = <<>> THEN <<>>
    ELSE insertByConfidence(sortByConfidence(SubSeq(rs, 1, Len(rs) - 1)), rs[Len(rs)])

\* variant: the isUnlocked test of the loop left out
selectUnlocked_All(rs, unlocked) == rs

\* the loop that keeps the unlocked recognitions of filteredResults
selectUnlocked(rs, unlocked) == SelectSeq(rs, LAMBDA rec : isUnlocked(rec, unlocked))

---------------------------------------------------------------------------
(* The manager as constructed *)

\* the goroutines of the host that call the manager
Callers == {"a", "b"}

\* the nil value of m.doneChan
NilChan == 0

\* the done channels, numbered in the order make() returns them
Chans == 1..MaxRuns

\* what a publisher holds when it holds no frame; also the frame sent while
\* the frames are not numbered
NoFrame == 0

\* the subscribers a broadcaster may have
Subscribers == {"s1", "s2", "s3"}

\* the broadcaster with no subscriber registered
NoSubscribers ==
    /\ subscribers = {}
    /\ received = [s \in Subscribers |-> <<>>]
    /\ outcome = [s \in Subscribers |-> "none"]
    /\ sent = <<>>

\* the dashboard page as declared: nothing frozen, queued or shown
NoFreeze ==
    /\ freezeCount = 0
    /\ pendingDetectionQueue = <<>>
    /\ updateQueue = {}
    /\ updateTimer = FALSE
    /\ dailySummary = <<>>
    /\ arrived = <<>>
    /\ flushed = <<>>

\* let birdSinging = $state({ indicatorCount: 0, hearingCount: 0 })
InitBirdSinging == [indicatorCount |-> 0, hearingCount |-> 0]

\* what the page records of envelopes, before any has arrived
NoEnvelopes ==
    /\ speciesSummary = <<>>
    /\ birdSinging = InitBirdSinging
    /\ lastLog = "none"
    /\ event = "none"
    /\ emitted = <<>>
    /\ delivered = 0
    /\ dropped = 0

\* the page after startUp() has loaded the settings and connected
PageStarted ==
    /\ startUp = "done"
    /\ fetch = "loaded"
    /\ destroyed = FALSE
    /\ spectrogramEventSource = "connecting"
    /\ NoEnvelopes

\* the second the host starts in: the last one of a minute
StartTime == 59

\* the manager NewUiSpectrogramManager returns, nothing called yet
NewUiSpectrogramManager(api) ==
    /\ apiController = api
    /\ mutex = "none"
    /\ isRunning = FALSE
    /\ doneChan = NilChan
    /\ wg = 0
    /\ chans = 0
    /\ closes = [c \in Chans |-> 0]
    /\ mergedQuitChan = [c \in Chans |-> "none"]
    /\ ctx = [c \in Chans |-> "none"]
    /\ worker = [c \in Chans |-> "none"]
    /\ pc = [t \in Callers |-> "idle"]
    /\ call = [t \in Callers |-> "none"]
    /\ ret = [t \in Callers |-> "none"]
    /\ logged = [t \in Callers |-> "none"]
    /\ made = [t \in Callers |-> NilChan]
    /\ overlap = [t \in Callers |-> FALSE]
    /\ item = [c \in Chans |-> NoFrame]
    /\ produced = 0
    /\ handed = <<>>
    /\ failed = {}
    /\ warned = <<>>

---------------------------------------------------------------------------
(* The state machine *)

Init ==
    /\ NewUiSpectrogramManager(TRUE)
    /\ producer = "saturating"
    /\ spectrogramChan = <<NoFrame>>
    /\ now = StartTime
    /\ NoSubscribers
    /\ NoFreeze
    /\ PageStarted
    /\ thresholdPrefs \in Policies
    /\ unlockedSpecies = InitUnlockedSpecies
    /\ previousDetections = InitPreviousDetections
    /\ recs = <<>>
    /\ filteredResults = <<>>
    /\ history = EmptyHistory
    /\ results = <<>>
    /\ returned = "idle"
    /\ eventSource = "connecting"

\* one call filterAndSortResults(batch), up to its return
filterAndSortResults(batch) ==
    LET filtered == filterByThreshold(batch, unlockedSpecies, thresholdPrefs)
    IN  /\ recs' = batch
        /\ filteredResults' = filtered
        /\ UNCHANGED thresholdPrefs
        /\ IF ~containsBirdSinging(filtered)
           THEN /\ results' = <<>>
                /\ returned' = "silent"
                /\ history' = EmptyHistory
                /\ UNCHANGED <<unlockedSpecies, previousDetections>>
           ELSE LET h == updateHistory(previousDetections, filtered)
                    unlocked == updateUnlockedSpecies(filtered, h, unlockedSpecies,
                                                      thresholdPrefs)
                IN  /\ history' = h
                    /\ previousDetections' = filtered
                    /\ unlockedSpecies' = unlocked
                    /\ results' = sortByConfidence(selectUnlocked(filtered, unlocked))
                    /\ returned' = "emitted"

\* a prediction batch arrives on the open stream and is processed
Process ==
    /\ returned = "idle"
    /\ eventSource = "open"
    /\ UNCHANGED <<eventSource, pageVars, managerVars, dashboardVars>>
    /\ \E batch \in Batches : filterAndSortResults(batch)

\* the caller is done with the returned array: the call's locals are gone and
\* the page waits for the next batch
Await ==
    /\ returned # "idle"
    /\ recs' = <<>>
    /\ filteredResults' = <<>>
    /\ history' = EmptyHistory
    /\ results' = <<>>
    /\ returned' = "idle"
    /\ UNCHANGED <<thresholdPrefs, unlockedSpecies, previousDetections, eventSource>>
    /\ UNCHANGED <<pageVars, managerVars, dashboardVars>>

\* variant: a page that starts over with a fresh engine when the stream reopens
onopen_FreshEngine ==
    /\ returned = "idle"
    /\ eventSource \in {"connecting", "retrying"}
    /\ eventSource' = "open"
    /\ unlockedSpecies' = InitUnlockedSpecies
    /\ previousDetections' = InitPreviousDetections
    /\ UNCHANGED <<thresholdPrefs, recs, filteredResults, history, results, returned>>
    /\ UNCHANGED <<pageVars, managerVars, dashboardVars>>

\* the stream is open, for the first time or after a reconnection: the handler
\* only logs
onopen ==
    /\ returned = "idle"
    /\ eventSource \in {"connecting", "retrying"}
    /\ eventSource' = "open"
    /\ UNCHANGED <<engineVars, pageVars, managerVars, dashboardVars>>

\* the connection failed or dropped: the handler only logs, and
\* ReconnectingEventSource retries by itself
onerror ==
    /\ returned = "idle"
    /\ eventSource \in {"connecting", "open"}
    /\ eventSource' = "retrying"
    /\ UNCHANGED <<engineVars, pageVars, managerVars, dashboardVars>>

Next == Process \/ Await \/ onopen \/ onerror

Spec == Init /\ [][Next]_vars

---------------------------------------------------------------------------
(* updateHistory on its own: any stored batch, any filtered batch *)

HistoryInputs == SeqsUpTo(SoundRecognition, MaxHistoryLen)

InitHistory ==
    /\ NewUiSpectrogramManager(TRUE)
    /\ producer = "saturating"
    /\ spectrogramChan = <<NoFrame>>
    /\ now = StartTime
    /\ NoSubscribers
    /\ NoFreeze
    /\ PageStarted
    /\ thresholdPrefs \in Policies
    /\ unlockedSpecies = InitUnlockedSpecies
    /\ previousDetections \in HistoryInputs
    /\ recs = <<>>
    /\ filteredResults \in HistoryInputs
    /\ history = EmptyHistory
    /\ results = <<>>
    /\ returned = "idle"
    /\ eventSource = "open"

\* one call updateHistory(filteredResults)
CallUpdateHistory ==
    /\ returned = "idle"
    /\ history' = updateHistory(previousDetections, filteredResults)
    /\ previousDetections' = filteredResults
    /\ returned' = "emitted"
    /\ UNCHANGED <<thresholdPrefs, unlockedSpecies, recs, filteredResults, results,
                    eventSource, pageVars, managerVars, dashboardVars>>

\* the next filtered batch is at hand
NextFiltered ==
    /\ returned = "emitted"
    /\ filteredResults' \in HistoryInputs
    /\ history' = EmptyHistory
    /\ returned' = "idle"
    /\ UNCHANGED <<thresholdPrefs, unlockedSpecies, previousDetections, recs, results,
                    eventSource, pageVars, managerVars, dashboardVars>>

NextHistory == CallUpdateHistory \/ NextFiltered

SpecHistory == InitHistory /\ [][NextHistory]_vars

---------------------------------------------------------------------------
(* The page: start-up, the detection stream and the species summary *)

\* variant: defaults under which one detection unlocks
DefaultPrefs_UnlockAtOnce ==
    [birdsingingthreshold |-> 100, initialthreshold |-> 100,
     unlockedthreshold |-> 100, mindetectionstounlock |-> 1]

\* let thresholdPrefs = { 1.0, 1.0, 1.0, 1000 }, in hundredths
DefaultPrefs ==
    [birdsingingthreshold |-> 100, initialthreshold |-> 100,
     unlockedthreshold |-> 100, mindetectionstounlock |-> 1000]

\* the recognitions of a frame on the stream: those above, and the sentinel
\* and Robin at confidence 1.0
ModelPredictions ==
    SoundRecognition \cup {Rec(SINGING_BIRD_NAME, 100), Rec("Robin", 100)}

\* the lists of predictions an envelope may carry
Predictions == SeqsUpTo(ModelPredictions, MaxBatchLen)

\* what the 'merlin' event may carry: text that is no JSON ("text"), a JSON
\* value that is no object ("value"), an object without predictions ("bare")
\* and an object with a list of predictions ("batch")
Envelopes ==
    [kind : {"text", "value", "bare"}, predictions : {<<>>}]
       \cup [kind : {"batch"}, predictions : Predictions]

Max(a, b) == IF a >= b THEN a ELSE b

\* variant: a new species added at the end of the summary
handleNewDetection_Append(summary, detection) ==
    LET found == {i \in 1..Len(summary) :
                     summary[i].common_name = detection.commonName}
    IN  IF found # {}
        THEN LET existingIndex == CHOOSE i \in found : \A j \in found : i <= j
                 existing == summary[existingIndex]
                 updated == [existing EXCEPT
                               !.count = @ + 1,
                               !.maxConfidence = Max(@, detection.confidence),
                               !.confidence = detection.confidence]
             IN  [summary EXCEPT ![existingIndex] = updated]
        ELSE Append(summary,
                    [common_name |-> detection.commonName,
                     confidence |-> detection.confidence,
                     maxConfidence |-> detection.confidence,
                     count |-> 1])

\* variant: every detection added as a new entry
handleNewDetection_AlwaysAdd(summary, detection) ==
    <<[common_name |-> detection.commonName,
       confidence |-> detection.confidence,
       maxConfidence |-> detection.confidence,
       count |-> 1]>> \o summary

\* handleNewDetection(detection): the summary after it
handleNewDetection(summary, detection) ==
    LET found == {i \in 1..Len(summary) :
                     summary[i].common_name = detection.commonName}
    IN  IF found # {}
        THEN LET existingIndex == CHOOSE i \in found : \A j \in found : i <= j
                 existing == summary[existingIndex]
                 updated == [existing EXCEPT
                               !.count = @ + 1,
                               !.maxConfidence = Max(@, detection.confidence),
                               !.confidence = detection.confidence]
             IN  [summary EXCEPT ![existingIndex] = updated]
        ELSE <<[common_name |-> detection.commonName,
                confidence |-> detection.confidence,
                maxConfidence |-> detection.confidence,
                count |-> 1]>> \o summary

\* variant: a loop that counts the batch once, whatever it holds
RECURSIVE forEachRec_OncePerBatch(_, _, _, _)
forEachRec_OncePerBatch(rs, n, summary, singing) ==
    IF rs = <<>> THEN [speciesSummary |-> summary, birdSinging |-> singing]
    ELSE LET rec == Head(rs)
         IN  IF rec.commonName = SINGING_BIRD_NAME
             THEN forEachRec_OncePerBatch(Tail(rs), n, summary,
                             [indicatorCount |-> singing.indicatorCount + 1,
                              hearingCount |-> singing.hearingCount + 1])
             ELSE forEachRec_OncePerBatch(Tail(rs), n,
                                          handleNewDetection(summary, rec), singing)

\* the loop of handleNewPrediction over the n recognitions returned, of which
\* rs are left
RECURSIVE forEachRec(_, _, _, _)
forEachRec(rs, n, summary, singing) ==
    IF rs = <<>> THEN [speciesSummary |-> summary, birdSinging |-> singing]
    ELSE LET rec == Head(rs)
         IN  IF rec.commonName = SINGING_BIRD_NAME
             THEN forEachRec(Tail(rs), n, summary,
                             [indicatorCount |-> singing.indicatorCount + 1,
                              hearingCount |-> IF n = 1
                                               THEN singing.hearingCount + 1
                                               ELSE 0])
             ELSE forEachRec(Tail(rs), n, handleNewDetection(summary, rec), singing)

\* what one call filterAndSortResults(batch) returns and leaves behind
afterBatch(batch, unlocked, previous, prefs) ==
    LET filtered == filterByThreshold(batch, unlocked, prefs)
    IN  IF ~containsBirdSinging(filtered)
        THEN [results |-> <<>>, unlockedSpecies |-> unlocked,
              previousDetections |-> previous]
        ELSE LET h == updateHistory(previous, filtered)
                 now_unlocked == updateUnlockedSpecies(filtered, h, unlocked, prefs)
             IN  [results |-> sortByConfidence(selectUnlocked(filtered, now_unlocked)),
                  unlockedSpecies |-> now_unlocked,
                  previousDetections |-> filtered]

\* handleNewPrediction(data) for data.predictions a list, up to its return
handleNewPrediction(predictions) ==
    LET out == afterBatch(predictions, unlockedSpecies, previousDetections,
                          thresholdPrefs)
        after == forEachRec(out.results, Len(out.results), speciesSummary,
                            IF out.results = <<>> THEN InitBirdSinging
                            ELSE birdSinging)
    IN  /\ unlockedSpecies' = out.unlockedSpecies
        /\ previousDetections' = out.previousDetections
        /\ emitted' = out.results
        /\ speciesSummary' = after.speciesSummary
        /\ birdSinging' = after.birdSinging
        /\ lastLog' = IF after.speciesSummary # speciesSummary THEN "debug"
                      ELSE "none"
        /\ UNCHANGED <<thresholdPrefs, recs, filteredResults, history, results,
                       returned, dropped>>

\* the envelope is given up with a log entry of the level
Drop(level) ==
    /\ lastLog' = level
    /\ dropped' = dropped + 1
    /\ emitted' = <<>>
    /\ UNCHANGED <<engineVars, speciesSummary, birdSinging>>

\* the answers of isPlainObject (imported from $lib/utils/security): true of
\* an object; of a value that is no object either answer is followed
isPlainObject(e) == IF e.kind \in {"bare", "batch"} THEN {TRUE} ELSE BOOLEAN

\* variant: a payload without predictions taken for an empty batch
handleSSEDetection_EmptyBatch(e) ==
    \E plain \in isPlainObject(e) :
        IF ~plain THEN Drop("warn")
        ELSE handleNewPrediction(e.predictions)

\* handleSSEDetection(detectionData): isModelPredictions is isPlainObject;
\* without a list of predictions the for-of of filterByThreshold throws
\* before anything is assigned, and the catch logs the error
handleSSEDetection(e) ==
    \E plain \in isPlainObject(e) :
        IF ~plain THEN Drop("warn")
        ELSE IF e.kind # "batch" THEN Drop("error")
        ELSE handleNewPrediction(e.predictions)

\* the listener of 'merlin' events: JSON.parse, then handleSSEDetection
onMerlin ==
    /\ eventSource = "open"
    /\ delivered < MaxEnvelopes
    /\ \E e \in Envelopes :
          /\ event' = e.kind
          /\ IF e.kind = "text" THEN Drop("error")
             ELSE handleSSEDetection(e)
    /\ delivered' = delivered + 1
    /\ UNCHANGED <<eventSource, startUp, fetch, destroyed, spectrogramEventSource,
                   managerVars, dashboardVars>>

\* variant: a start-up that connects without awaiting the settings
onMount_NoAwait ==
    /\ startUp = "idle"
    /\ startUp' = "done"
    /\ fetch' = "pending"
    /\ eventSource' = "connecting"
    /\ spectrogramEventSource' = "connecting"
    /\ UNCHANGED <<engineVars, destroyed, speciesSummary, birdSinging, lastLog,
                   event, emitted, delivered, dropped, managerVars, dashboardVars>>

\* onMount: startUp() runs up to its await of fetchSoundIdConfig()
onMount ==
    /\ startUp = "idle"
    /\ startUp' = "awaiting"
    /\ fetch' = "pending"
    /\ UNCHANGED <<engineVars, eventSource, destroyed, spectrogramEventSource,
                   speciesSummary, birdSinging, lastLog, event, emitted, delivered,
                   dropped, managerVars, dashboardVars>>

\* api.get resolves: the settings are assigned
FetchLoaded ==
    /\ fetch = "pending"
    /\ fetch' = "loaded"
    /\ thresholdPrefs' \in Policies
    /\ startUp' = IF startUp = "awaiting" THEN "settled" ELSE startUp
    /\ UNCHANGED <<unlockedSpecies, previousDetections, recs, filteredResults,
                   history, results, returned, eventSource, destroyed,
                   spectrogramEventSource, speciesSummary, birdSinging, lastLog,
                   event, emitted, delivered, dropped, managerVars, dashboardVars>>

\* variant: the error of the fetch ends startUp()
FetchFailed_Rethrow ==
    /\ fetch = "pending"
    /\ fetch' = "failed"
    /\ startUp' = "done"
    /\ UNCHANGED <<engineVars, eventSource, destroyed, spectrogramEventSource,
                   speciesSummary, birdSinging, lastLog, event, emitted, delivered,
                   dropped, managerVars, dashboardVars>>

\* api.get rejects: the catch logs and keeps the values
FetchFailed ==
    /\ fetch = "pending"
    /\ fetch' = "failed"
    /\ startUp' = IF startUp = "awaiting" THEN "settled" ELSE startUp
    /\ UNCHANGED <<engineVars, eventSource, destroyed, spectrogramEventSource,
                   speciesSummary, birdSinging, lastLog, event, emitted, delivered,
                   dropped, managerVars, dashboardVars>>

\* startUp() after its await: connectToDetectionStream() and
\* connectToSpectrogramStream()
startUpConnect ==
    /\ startUp = "settled"
    /\ startUp' = "done"
    /\ eventSource' = "connecting"
    /\ spectrogramEventSource' = "connecting"
    /\ UNCHANGED <<engineVars, fetch, destroyed, speciesSummary, birdSinging,
                   lastLog, event, emitted, delivered, dropped, managerVars, dashboardVars>>

\* the cleanup onMount returned: both event sources closed and set to null
onDestroy ==
    /\ startUp # "idle"
    /\ ~destroyed
    /\ destroyed' = TRUE
    /\ eventSource' = "null"
    /\ spectrogramEventSource' = "null"
    /\ UNCHANGED <<engineVars, startUp, fetch, speciesSummary, birdSinging,
                   lastLog, event, emitted, delivered, dropped, managerVars, dashboardVars>>

\* the page as created: the defaults, nothing fetched, nothing connected
InitPage ==
    /\ NewUiSpectrogramManager(TRUE)
    /\ producer = "saturating"
    /\ spectrogramChan = <<NoFrame>>
    /\ now = StartTime
    /\ NoSubscribers
    /\ NoFreeze
    /\ thresholdPrefs = DefaultPrefs
    /\ unlockedSpecies = InitUnlockedSpecies
    /\ previousDetections = InitPreviousDetections
    /\ recs = <<>>
    /\ filteredResults = <<>>
    /\ history = EmptyHistory
    /\ results = <<>>
    /\ returned = "idle"
    /\ eventSource = "null"
    /\ startUp = "idle"
    /\ fetch = "none"
    /\ destroyed = FALSE
    /\ spectrogramEventSource = "null"
    /\ NoEnvelopes

NextPage ==
    \/ onMount
    \/ FetchLoaded
    \/ FetchFailed
    \/ startUpConnect
    \/ onopen
    \/ onerror
    \/ onMerlin
    \/ onDestroy

SpecPage == InitPage /\ [][NextPage]_vars

---------------------------------------------------------------------------
(* The species summary under long frames: three species, one of them at    *)
(* two confidences, in lists of up to MaxPredictions recognitions          *)

LongPredictions ==
    SeqsUpTo({Rec(SINGING_BIRD_NAME, 80), Rec("Robin", 60), Rec("Robin", 100),
              Rec("Wren", 80), Rec("Jay", 80)}, MaxPredictions)

\* the listener of 'merlin' events on an envelope that carries a long frame
onMerlinLong ==
    /\ eventSource = "open"
    /\ delivered < MaxEnvelopes
    /\ \E predictions \in LongPredictions :
          handleSSEDetection([kind |-> "batch", predictions |-> predictions])
    /\ event' = "batch"
    /\ delivered' = delivered + 1
    /\ UNCHANGED <<eventSource, startUp, fetch, destroyed, spectrogramEventSource,
                   managerVars, dashboardVars>>

NextSummary == onopen \/ onerror \/ onMerlinLong

\* the page after start-up, with the settings loaded
SpecSummary == Init /\ [][NextSummary]_vars

---------------------------------------------------------------------------
(* The dashboard page (desktop): detections of the stream are queued while *)
(* an interaction freezes the updates, and debounced into dailySummary     *)

\* the name handleSSEDetection skips
BIRD_SP == "bird sp."

\* let summaryLimit = $state(30)
summaryLimit == 30

SPECIES_LIMIT_BUFFER_TRIGGER == 10

SPECIES_LIMIT_BUFFER_TARGET == 5

\* queueDailySummaryUpdate skips when more updates than this are pending
MaxPendingUpdates == 20

\* the species codes in the order of localeCompare
CodeOrder == <<"Robin", "Wren">>

\* the predictions of an envelope of the dashboard's stream
DashboardPredictions ==
    SeqsUpTo({Rec(BIRD_SP, 80), Rec("Robin", 80), Rec("Wren", 80)}, MaxBatchLen)

DashboardEnvelopes ==
    [kind : {"value"}, predictions : {<<>>}]
       \cup [kind : {"batch"}, predictions : DashboardPredictions]

\* the Detection handleSSEDetection builds of a prediction
Detection(prediction) ==
    [id |-> 1,
     commonName |-> prediction.commonName,
     speciesCode |-> prediction.commonName]

\* the detections handleSSEDetection builds of the predictions ps, in order
RECURSIVE Detections(_)
Detections(ps) ==
    IF ps = <<>> THEN <<>>
    ELSE IF Head(ps).commonName = BIRD_SP THEN Detections(Tail(ps))
    ELSE <<Detection(Head(ps))>> \o Detections(Tail(ps))

\* the dashboard's fields the handlers of a detection work on
DashboardState ==
    [pendingDetectionQueue |-> pendingDetectionQueue,
     updateQueue |-> updateQueue,
     updateTimer |-> updateTimer]

\* updateQueue.set(detection.speciesCode, detection) and the timer set anew
queueDailySummaryUpdate(st, detection) ==
    IF Cardinality(st.updateQueue) > MaxPendingUpdates
    THEN st
    ELSE [st EXCEPT
            !.updateQueue = {q \in @ : q.speciesCode # detection.speciesCode}
                               \cup {detection},
            !.updateTimer = TRUE]

processDetectionUpdate(st, detection) == queueDailySummaryUpdate(st, detection)

\* pending.id === detection.id for some pending detection
isDuplicate(queue, detection) ==
    \E i \in 1..Len(queue) : queue[i].id = detection.id

\* handleNewDetection of the dashboard: queued while frozen unless a
\* duplicate, processed at once otherwise
handleNewDetectionDesktop(st, detection) ==
    IF freezeCount > 0
    THEN IF ~isDuplicate(st.pendingDetectionQueue, detection)
         THEN [st EXCEPT !.pendingDetectionQueue = Append(@, detection)]
         ELSE st
    ELSE processDetectionUpdate(st, detection)

\* the loop of handleSSEDetection over the detections ds
RECURSIVE forEachDetection(_, _)
forEachDetection(ds, st) ==
    IF ds = <<>> THEN st
    ELSE forEachDetection(Tail(ds), handleNewDetectionDesktop(st, Head(ds)))

\* the loop of handleFreezeEnd over the pending detections ds
RECURSIVE forEachPending(_, _)
forEachPending(ds, st) ==
    IF ds = <<>> THEN st
    ELSE forEachPending(Tail(ds), processDetectionUpdate(st, Head(ds)))

\* the 'merlin' listener of the dashboard: handleSSEDetection on the parsed
\* envelope
onMerlinDesktop ==
    /\ eventSource = "open"
    /\ delivered < MaxEnvelopes
    /\ \E e \in DashboardEnvelopes : \E plain \in isPlainObject(e) :
          IF ~plain
          THEN /\ lastLog' = "warn"
               /\ UNCHANGED <<pendingDetectionQueue, updateQueue, updateTimer,
                              arrived>>
          ELSE LET ds == Detections(e.predictions)
                   st == forEachDetection(ds, DashboardState)
               IN  /\ pendingDetectionQueue' = st.pendingDetectionQueue
                   /\ updateQueue' = st.updateQueue
                   /\ updateTimer' = st.updateTimer
                   /\ arrived' = IF freezeCount > 0 THEN arrived \o ds
                                 ELSE arrived
                   /\ lastLog' = "none"
    /\ delivered' = delivered + 1
    /\ UNCHANGED <<engineVars, eventSource, startUp, fetch, destroyed,
                   spectrogramEventSource, speciesSummary, birdSinging, event,
                   emitted, dropped, managerVars, freezeCount, dailySummary,
                   flushed>>

handleFreezeStart ==
    /\ freezeCount < MaxFreeze
    /\ freezeCount' = freezeCount + 1
    /\ UNCHANGED <<engineVars, eventSource, pageVars, managerVars,
                   pendingDetectionQueue, updateQueue, updateTimer, dailySummary,
                   arrived, flushed>>

\* freezeCount-- clamped at 0; at 0 the pending detections are processed and
\* the queue is cleared
handleFreezeEnd ==
    /\ freezeCount' = Max(0, freezeCount - 1)
    /\ IF freezeCount' = 0 /\ Len(pendingDetectionQueue) > 0
       THEN LET st == forEachPending(pendingDetectionQueue, DashboardState)
            IN  /\ updateQueue' = st.updateQueue
                /\ updateTimer' = st.updateTimer
                /\ flushed' = pendingDetectionQueue
                /\ pendingDetectionQueue' = <<>>
       ELSE /\ flushed' = <<>>
            /\ UNCHANGED <<pendingDetectionQueue, updateQueue, updateTimer>>
    /\ arrived' = IF freezeCount' = 0 THEN <<>> ELSE arrived
    /\ UNCHANGED <<engineVars, eventSource, pageVars, managerVars, dailySummary>>

\* summary without its i-th entry
RemoveAt(summary, i) ==
    SubSeq(summary, 1, i - 1) \o SubSeq(summary, i + 1, Len(summary))

\* [...summary].sort((a, b) => b.count - a.count): descending, stable
RECURSIVE sortByCount(_)
sortByCount(summary) ==
    IF summary = <<>> THEN <<>>
    ELSE LET first == CHOOSE i \in 1..Len(summary) :
                         /\ \A j \in 1..Len(summary) :
                               summary[j].count <= summary[i].count
                         /\ \A j \in 1..(i - 1) :
                               summary[j].count < summary[i].count
         IN  <<summary[first]>> \o sortByCount(RemoveAt(summary, first))

\* updateDailySummary: the count of a species shown goes up by one, a new
\* species is added at the end, and the list is cut when it is too long
updateDailySummary(summary, detection) ==
    LET found == {i \in 1..Len(summary) :
                     summary[i].common_name = detection.commonName}
    IN  IF found # {}
        THEN LET existingIndex == CHOOSE i \in found : \A j \in found : i <= j
             IN  [summary EXCEPT ![existingIndex].count = @ + 1]
        ELSE LET added == Append(summary,
                                 [common_name |-> detection.commonName,
                                  count |-> 1])
             IN  IF /\ summaryLimit > 0
                    /\ Len(added) > summaryLimit + SPECIES_LIMIT_BUFFER_TRIGGER
                 THEN SubSeq(sortByCount(added), 1,
                             summaryLimit + SPECIES_LIMIT_BUFFER_TARGET)
                 ELSE added

\* sortedUpdates.forEach(updateDailySummary), from the i-th species code on
RECURSIVE forEachUpdate(_, _, _)
forEachUpdate(i, queue, summary) ==
    IF i > Len(CodeOrder) THEN summary
    ELSE LET queued == {q \in queue : q.speciesCode = CodeOrder[i]}
         IN  forEachUpdate(i + 1, queue,
                           IF queued = {} THEN summary
                           ELSE updateDailySummary(summary,
                                                   CHOOSE q \in queued : TRUE))

\* the callback of updateTimer, 150 ms after the latest queued update
updateTimerFires ==
    /\ updateTimer
    /\ dailySummary' = forEachUpdate(1, updateQueue, dailySummary)
    /\ updateQueue' = {}
    /\ updateTimer' = FALSE
    /\ UNCHANGED <<engineVars, eventSource, pageVars, managerVars, freezeCount,
                   pendingDetectionQueue, arrived, flushed>>

\* the dashboard after onMount: the detection stream is being connected
InitDashboard ==
    /\ NewUiSpectrogramManager(TRUE)
    /\ producer = "saturating"
    /\ spectrogramChan = <<NoFrame>>
    /\ now = StartTime
    /\ NoSubscribers
    /\ NoFreeze
    /\ thresholdPrefs = DefaultPrefs
    /\ unlockedSpecies = InitUnlockedSpecies
    /\ previousDetections = InitPreviousDetections
    /\ recs = <<>>
    /\ filteredResults = <<>>
    /\ history = EmptyHistory
    /\ results = <<>>
    /\ returned = "idle"
    /\ eventSource = "connecting"
    /\ PageStarted

NextDashboard ==
    \/ onopen
    \/ onerror
    \/ onMerlinDesktop
    \/ handleFreezeStart
    \/ handleFreezeEnd
    \/ updateTimerFires

SpecDashboard == InitDashboard /\ [][NextDashboard]_vars

---------------------------------------------------------------------------
(* UiSpectrogramManager: Start, Stop, Restart, IsRunning and the publisher  *)
(* goroutines. Every caller runs one call at a time; a call is a sequence   *)
(* of steps named after the statement the caller is about to execute.       *)

Methods == {"Start", "Stop", "Restart", "IsRunning"}

\* the calls that change the state of the manager
Lifecycle == {"Start", "Stop", "Restart"}

\* caller t is inside a Start, Stop or Restart call
busy(t) == pc[t] # "idle" /\ call[t] \in Lifecycle

\* the calls in progress that may still make a done channel
pendingStarts ==
    Cardinality({t \in Callers : busy(t) /\ call[t] \in {"Start", "Restart"}})

\* the first statement of method f
entry(f) ==
    CASE f = "Start" -> "StartLock"
      [] f \in {"Stop", "Restart"} -> "StopLock"
      [] f = "IsRunning" -> "IsRunningLock"

InitMgr ==
    /\ \E api \in BOOLEAN : NewUiSpectrogramManager(api)
    /\ producer = "saturating"
    /\ spectrogramChan = <<NoFrame>>
    /\ now = StartTime
    /\ NoSubscribers
    /\ NoFreeze
    /\ PageStarted
    /\ thresholdPrefs = CHOOSE prefs \in Policies : TRUE
    /\ unlockedSpecies = InitUnlockedSpecies
    /\ previousDetections = InitPreviousDetections
    /\ recs = <<>>
    /\ filteredResults = <<>>
    /\ history = EmptyHistory
    /\ results = <<>>
    /\ returned = "idle"
    /\ eventSource = "connecting"

\* a goroutine of the host calls a method of the manager
Call(t) ==
    /\ pc[t] = "idle"
    /\ \E f \in Methods :
          /\ f \in {"Start", "Restart"} => chans + pendingStarts < MaxRuns
          /\ pc' = [pc EXCEPT ![t] = entry(f)]
          /\ call' = [call EXCEPT ![t] = f]
          /\ overlap' = IF f \in Lifecycle
                        THEN [u \in Callers |->
                                IF u = t THEN \E v \in Callers \ {t} : busy(v)
                                ELSE overlap[u] \/ busy(u)]
                        ELSE [overlap EXCEPT ![t] = FALSE]
    /\ ret' = [ret EXCEPT ![t] = "none"]
    /\ logged' = [logged EXCEPT ![t] = "none"]
    /\ made' = [made EXCEPT ![t] = NilChan]
    /\ UNCHANGED <<engineVars, eventSource, pageVars, dashboardVars, flowVars, clockVars, broadcasterVars,
                   apiController, mutex, fieldVars,
                   publisherVars>>

(* Start *)

\* m.mutex.Lock()
StartLock(t) ==
    /\ pc[t] = "StartLock"
    /\ mutex = "none"
    /\ mutex' = t
    /\ pc' = [pc EXCEPT ![t] = "StartCheck"]
    /\ UNCHANGED <<engineVars, eventSource, pageVars, dashboardVars, flowVars, clockVars, broadcasterVars,
                   apiController, fieldVars, publisherVars,
                   call, ret, logged, made, overlap>>

\* variant: Start without the isRunning test
StartCheck_NoGuard(t) ==
    /\ pc[t] = "StartCheck"
    /\ pc' = [pc EXCEPT ![t] = "StartMake"]
    /\ UNCHANGED <<engineVars, eventSource, pageVars, dashboardVars, flowVars, clockVars, broadcasterVars,
                   apiController, mutex, fieldVars,
                   publisherVars, call, ret, logged, made, overlap>>

\* if m.isRunning { log; return nil }
StartCheck(t) ==
    /\ pc[t] = "StartCheck"
    /\ IF isRunning
       THEN /\ logged' = [logged EXCEPT ![t] = "already running"]
            /\ ret' = [ret EXCEPT ![t] = "nil"]
            /\ mutex' = "none"
            /\ pc' = [pc EXCEPT ![t] = "idle"]
       ELSE /\ pc' = [pc EXCEPT ![t] = "StartMake"]
            /\ UNCHANGED <<logged, ret, mutex>>
    /\ UNCHANGED <<engineVars, eventSource, pageVars, dashboardVars, flowVars, clockVars, broadcasterVars,
                   apiController, fieldVars, publisherVars,
                   call, made, overlap>>

\* variant: make() handing out the channel it handed out last
makeChan_Reuse(n) == IF n = 0 THEN 1 ELSE n

\* the channel make() returns when n channels were made before
makeChan(n) == n + 1

\* m.doneChan = make(chan struct{})
StartMake(t) ==
    /\ pc[t] = "StartMake"
    /\ chans < MaxRuns
    /\ doneChan' = makeChan(chans)
    /\ chans' = chans + 1
    /\ made' = [made EXCEPT ![t] = doneChan']
    /\ pc' = [pc EXCEPT ![t] = "StartPublish"]
    /\ UNCHANGED <<engineVars, eventSource, pageVars, dashboardVars, flowVars, clockVars, broadcasterVars,
                   apiController, mutex, isRunning, wg,
                   closes, mergedQuitChan, ctx, worker, call, ret, logged, overlap>>

\* startUiSpectrogramPublishers(&m.wg, m.doneChan, ...): the merged quit
\* channel and its goroutine and, with a controller, the context, its
\* goroutine and the publisher started with wg.Go
StartPublish(t) ==
    /\ pc[t] = "StartPublish"
    /\ mergedQuitChan' = [mergedQuitChan EXCEPT ![doneChan] = "open"]
    /\ IF apiController
       THEN /\ ctx' = [ctx EXCEPT ![doneChan] = "active"]
            /\ worker' = [worker EXCEPT ![doneChan] = "select"]
            /\ wg' = wg + 1
       ELSE UNCHANGED <<ctx, worker, wg>>
    /\ pc' = [pc EXCEPT ![t] = "StartMark"]
    /\ UNCHANGED <<engineVars, eventSource, pageVars, dashboardVars, flowVars, clockVars, broadcasterVars,
                   apiController, mutex, fieldVars, chans,
                   closes, callerVarsButPc>>

\* m.isRunning = true; log; return nil
StartMark(t) ==
    /\ pc[t] = "StartMark"
    /\ isRunning' = TRUE
    /\ logged' = [logged EXCEPT ![t] = "started"]
    /\ ret' = [ret EXCEPT ![t] = "nil"]
    /\ mutex' = "none"
    /\ pc' = [pc EXCEPT ![t] = "idle"]
    /\ UNCHANGED <<engineVars, eventSource, pageVars, dashboardVars, flowVars, clockVars, broadcasterVars,
                   apiController, doneChan, publisherVars,
                   call, made, overlap>>

(* Stop *)

\* variant: Restart returning when its Stop returns
afterStop_NoStart(t) == "idle"

\* where a caller goes when Stop returns: Restart goes on with Start
afterStop(t) == IF call[t] = "Restart" THEN "StartLock" ELSE "idle"

\* m.mutex.Lock()
StopLock(t) ==
    /\ pc[t] = "StopLock"
    /\ mutex = "none"
    /\ mutex' = t
    /\ pc' = [pc EXCEPT ![t] = "StopCheck"]
    /\ UNCHANGED <<engineVars, eventSource, pageVars, dashboardVars, flowVars, clockVars, broadcasterVars,
                   apiController, fieldVars, publisherVars,
                   callerVarsButPc>>

\* variant: Stop without the isRunning test
StopCheck_NoGuard(t) ==
    /\ pc[t] = "StopCheck"
    /\ pc' = [pc EXCEPT ![t] = "StopClose"]
    /\ UNCHANGED <<engineVars, eventSource, pageVars, dashboardVars, flowVars, clockVars, broadcasterVars,
                   apiController, mutex, fieldVars,
                   publisherVars, callerVarsButPc>>

\* if !m.isRunning { log; return }
StopCheck(t) ==
    /\ pc[t] = "StopCheck"
    /\ IF ~isRunning
       THEN /\ logged' = [logged EXCEPT ![t] = "not running"]
            /\ mutex' = "none"
            /\ pc' = [pc EXCEPT ![t] = afterStop(t)]
       ELSE /\ pc' = [pc EXCEPT ![t] = "StopClose"]
            /\ UNCHANGED <<logged, mutex>>
    /\ UNCHANGED <<engineVars, eventSource, pageVars, dashboardVars, flowVars, clockVars, broadcasterVars,
                   apiController, fieldVars, publisherVars,
                   call, ret, made, overlap>>

\* if m.doneChan != nil { close(m.doneChan) }
StopClose(t) ==
    /\ pc[t] = "StopClose"
    /\ IF doneChan # NilChan
       THEN closes' = [closes EXCEPT ![doneChan] = @ + 1]
       ELSE UNCHANGED closes
    /\ pc' = [pc EXCEPT ![t] = "StopWait"]
    /\ UNCHANGED <<engineVars, eventSource, pageVars, dashboardVars, flowVars, clockVars, broadcasterVars,
                   apiController, mutex, fieldVars, wg,
                   chans, mergedQuitChan, ctx, worker, callerVarsButPc>>

\* variant: Stop waiting for m.wg without a timeout
StopWait_NoTimeout(t) ==
    /\ pc[t] = "StopWait"
    /\ wg = 0
    /\ logged' = [logged EXCEPT ![t] = "stopped"]
    /\ pc' = [pc EXCEPT ![t] = "StopClear"]
    /\ UNCHANGED <<engineVars, eventSource, pageVars, dashboardVars, flowVars, clockVars, broadcasterVars,
                   apiController, mutex, fieldVars,
                   publisherVars, call, ret, made, overlap>>

\* select { case <-done: ...; case <-time.After(30 * time.Second): ... }:
\* done is closed once m.wg.Wait() returned, the timer fires while a
\* goroutine of m.wg is still running
StopWait(t) ==
    /\ pc[t] = "StopWait"
    /\ \/ wg = 0 /\ logged' = [logged EXCEPT ![t] = "stopped"]
       \/ wg > 0 /\ logged' = [logged EXCEPT ![t] = "timeout"]
    /\ pc' = [pc EXCEPT ![t] = "StopClear"]
    /\ UNCHANGED <<engineVars, eventSource, pageVars, dashboardVars, flowVars, clockVars, broadcasterVars,
                   apiController, mutex, fieldVars,
                   publisherVars, call, ret, made, overlap>>

\* m.isRunning = false
StopClear(t) ==
    /\ pc[t] = "StopClear"
    /\ isRunning' = FALSE
    /\ pc' = [pc EXCEPT ![t] = "StopNil"]
    /\ UNCHANGED <<engineVars, eventSource, pageVars, dashboardVars, flowVars, clockVars, broadcasterVars,
                   apiController, mutex, doneChan,
                   publisherVars, callerVarsButPc>>

\* m.doneChan = nil; return
StopNil(t) ==
    /\ pc[t] = "StopNil"
    /\ doneChan' = NilChan
    /\ mutex' = "none"
    /\ pc' = [pc EXCEPT ![t] = afterStop(t)]
    /\ UNCHANGED <<engineVars, eventSource, pageVars, dashboardVars, flowVars, clockVars, broadcasterVars,
                   apiController, isRunning, publisherVars,
                   callerVarsButPc>>

(* IsRunning *)

\* variant: IsRunning reading the flag without taking m.mutex
IsRunningLock_NoMutex(t) ==
    /\ pc[t] = "IsRunningLock"
    /\ pc' = [pc EXCEPT ![t] = "IsRunningRead"]
    /\ UNCHANGED <<engineVars, eventSource, pageVars, dashboardVars, flowVars, clockVars, broadcasterVars,
                   apiController, mutex, fieldVars,
                   publisherVars, callerVarsButPc>>

\* m.mutex.Lock()
IsRunningLock(t) ==
    /\ pc[t] = "IsRunningLock"
    /\ mutex = "none"
    /\ mutex' = t
    /\ pc' = [pc EXCEPT ![t] = "IsRunningRead"]
    /\ UNCHANGED <<engineVars, eventSource, pageVars, dashboardVars, flowVars, clockVars, broadcasterVars,
                   apiController, fieldVars, publisherVars,
                   callerVarsButPc>>

\* return m.isRunning
IsRunningRead(t) ==
    /\ pc[t] = "IsRunningRead"
    /\ ret' = [ret EXCEPT ![t] = IF isRunning THEN "true" ELSE "false"]
    /\ mutex' = "none"
    /\ pc' = [pc EXCEPT ![t] = "idle"]
    /\ UNCHANGED <<engineVars, eventSource, pageVars, dashboardVars, flowVars, clockVars, broadcasterVars,
                   apiController, fieldVars, publisherVars,
                   call, logged, made, overlap>>

(* The goroutines of the publishers, per done channel c *)

\* go func() { <-doneChan; close(mergedQuitChan) }()
MergeQuit(c) ==
    /\ mergedQuitChan[c] = "open"
    /\ closes[c] > 0
    /\ mergedQuitChan' = [mergedQuitChan EXCEPT ![c] = "closed"]
    /\ UNCHANGED <<engineVars, eventSource, pageVars, dashboardVars, flowVars, clockVars, broadcasterVars,
                   apiController, mutex, fieldVars, wg,
                   chans, closes, ctx, worker, callerVars>>

\* go func() { select { case <-doneChan: cancel(); case <-ctx.Done(): } }()
ConvertCancel(c) ==
    /\ ctx[c] = "active"
    /\ mergedQuitChan[c] = "closed"
    /\ ctx' = [ctx EXCEPT ![c] = "cancelled"]
    /\ UNCHANGED <<engineVars, eventSource, pageVars, dashboardVars, flowVars, clockVars, broadcasterVars,
                   apiController, mutex, fieldVars, wg,
                   chans, closes, mergedQuitChan, worker, callerVars>>

\* the numbering producer sends its next frame into the channel, which has
\* room for it
Enqueue ==
    /\ producer = "numbering"
    /\ Len(spectrogramChan) < QueueCap
    /\ produced < MaxItems
    /\ spectrogramChan' = Append(spectrogramChan, produced + 1)
    /\ produced' = produced + 1
    /\ UNCHANGED <<engineVars, eventSource, pageVars, dashboardVars, clockVars, broadcasterVars,
                   apiController, mutex, fieldVars, publisherVars, callerVars,
                   item, producer, handed, failed>>

\* the publisher's select takes case spectrogramData := <-spectrogramChan
\* (the saturating producer refills the channel at once)
WorkerReceive(c) ==
    /\ worker[c] = "select"
    /\ spectrogramChan # <<>>
    /\ item' = [item EXCEPT ![c] = Head(spectrogramChan)]
    /\ spectrogramChan' = IF producer = "saturating" THEN spectrogramChan
                           ELSE Tail(spectrogramChan)
    /\ worker' = [worker EXCEPT ![c] = "received"]
    /\ UNCHANGED <<engineVars, eventSource, pageVars, dashboardVars, clockVars, broadcasterVars,
                   apiController, mutex, fieldVars, wg, chans, closes,
                   mergedQuitChan, ctx, callerVars, producer, produced, handed,
                   failed>>

\* the publisher calls apiController.BroadcastSpectrogram(&spectrogramData)
WorkerCall(c) ==
    /\ worker[c] = "received"
    /\ worker' = [worker EXCEPT ![c] = "broadcast"]
    /\ handed' = IF producer = "numbering" THEN Append(handed, item[c])
                  ELSE handed
    /\ UNCHANGED <<engineVars, eventSource, pageVars, dashboardVars, clockVars, broadcasterVars,
                   apiController, mutex, fieldVars, wg, chans, closes,
                   mergedQuitChan, ctx, callerVars, spectrogramChan, item, producer,
                   produced, failed>>

\* the seconds in which the publisher logs a broadcast error
Minute == 60

\* variant: a publisher that returns when a broadcast fails
WorkerBroadcast_ReturnOnError(c) ==
    /\ worker[c] = "broadcast"
    /\ \E err \in BOOLEAN :
          /\ failed' = IF producer = "numbering" /\ err
                        THEN failed \cup {item[c]}
                        ELSE failed
          /\ warned' = IF err /\ now % Minute = 0 THEN Append(warned, now)
                        ELSE warned
          /\ worker' = [worker EXCEPT ![c] = IF err THEN "exited" ELSE "select"]
          /\ wg' = IF err THEN wg - 1 ELSE wg
    /\ item' = [item EXCEPT ![c] = NoFrame]
    /\ UNCHANGED <<engineVars, eventSource, pageVars, dashboardVars, now, broadcasterVars,
                   apiController, mutex, fieldVars, chans, closes,
                   mergedQuitChan, ctx, callerVars, spectrogramChan, producer,
                   produced, handed>>

\* BroadcastSpectrogram returns, with an error or without: an error is logged
\* if time.Now().Unix()%60 == 0, and the loop selects again
WorkerBroadcast(c) ==
    /\ worker[c] = "broadcast"
    /\ \E err \in BOOLEAN :
          /\ failed' = IF producer = "numbering" /\ err
                        THEN failed \cup {item[c]}
                        ELSE failed
          /\ warned' = IF err /\ now % Minute = 0 THEN Append(warned, now)
                        ELSE warned
    /\ item' = [item EXCEPT ![c] = NoFrame]
    /\ worker' = [worker EXCEPT ![c] = "select"]
    /\ UNCHANGED <<engineVars, eventSource, pageVars, dashboardVars, now, broadcasterVars,
                   apiController, mutex, fieldVars, wg, chans, closes,
                   mergedQuitChan, ctx, callerVars, spectrogramChan, producer,
                   produced, handed>>

\* variant: a select that takes case <-ctx.Done() only when no frame waits
WorkerExit_WhenNoFrame(c) ==
    /\ worker[c] = "select"
    /\ ctx[c] = "cancelled"
    /\ spectrogramChan = <<>>
    /\ worker' = [worker EXCEPT ![c] = "exited"]
    /\ wg' = wg - 1
    /\ UNCHANGED <<engineVars, eventSource, pageVars, dashboardVars, flowVars, clockVars, broadcasterVars,
                   apiController, mutex, fieldVars, chans, closes,
                   mergedQuitChan, ctx, callerVars>>

\* the publisher's select takes case <-ctx.Done() and the goroutine returns
WorkerExit(c) ==
    /\ worker[c] = "select"
    /\ ctx[c] = "cancelled"
    /\ worker' = [worker EXCEPT ![c] = "exited"]
    /\ wg' = wg - 1
    /\ UNCHANGED <<engineVars, eventSource, pageVars, dashboardVars, flowVars, clockVars, broadcasterVars,
                   apiController, mutex, fieldVars, chans, closes,
                   mergedQuitChan, ctx, callerVars>>

NextMgr ==
    \/ \E t \in Callers :
          \/ Call(t)
          \/ StartLock(t) \/ StartCheck(t) \/ StartMake(t) \/ StartPublish(t)
          \/ StartMark(t)
          \/ StopLock(t) \/ StopCheck(t) \/ StopClose(t) \/ StopWait(t)
          \/ StopClear(t) \/ StopNil(t)
          \/ IsRunningLock(t) \/ IsRunningRead(t)
    \/ \E c \in Chans :
          \/ MergeQuit(c) \/ ConvertCancel(c)
          \/ WorkerReceive(c) \/ WorkerCall(c) \/ WorkerBroadcast(c)
          \/ WorkerExit(c)

SpecMgr == InitMgr /\ [][NextMgr]_vars

\* the caller of Stop is scheduled and the timer of time.After fires; nothing
\* is assumed of the publisher goroutines, which may stay in a broadcast
SpecMgrFair ==
    /\ SpecMgr
    /\ \A t \in Callers :
          WF_vars(StopClose(t) \/ StopWait(t) \/ StopClear(t) \/ StopNil(t))

---------------------------------------------------------------------------
(* The way of the frames: one goroutine of the host calls the manager, the  *)
(* producer sends frames, the publishers hand them to the broadcaster.      *)

\* the goroutine of the host that calls the manager
FlowCallers == {"a"}

\* the page is not in use
PageAtRest ==
    /\ thresholdPrefs = CHOOSE prefs \in Policies : TRUE
    /\ unlockedSpecies = InitUnlockedSpecies
    /\ previousDetections = InitPreviousDetections
    /\ recs = <<>>
    /\ filteredResults = <<>>
    /\ history = EmptyHistory
    /\ results = <<>>
    /\ returned = "idle"
    /\ eventSource = "connecting"

\* the channel is kept full by the producer
InitLoop ==
    /\ \E api \in BOOLEAN : NewUiSpectrogramManager(api)
    /\ producer = "saturating"
    /\ spectrogramChan = <<NoFrame>>
    /\ now = StartTime
    /\ NoSubscribers
    /\ NoFreeze
    /\ PageStarted
    /\ PageAtRest

NextLoop ==
    \/ \E t \in FlowCallers :
          \/ Call(t)
          \/ StartLock(t) \/ StartCheck(t) \/ StartMake(t) \/ StartPublish(t)
          \/ StartMark(t)
          \/ StopLock(t) \/ StopCheck(t) \/ StopClose(t) \/ StopWait(t)
          \/ StopClear(t) \/ StopNil(t)
          \/ IsRunningLock(t) \/ IsRunningRead(t)
    \/ \E c \in Chans :
          \/ MergeQuit(c) \/ ConvertCancel(c)
          \/ WorkerReceive(c) \/ WorkerCall(c) \/ WorkerBroadcast(c)
          \/ WorkerExit(c)

SpecLoop == InitLoop /\ [][NextLoop]_vars

\* the goroutines started for a run are scheduled and every call of
\* BroadcastSpectrogram returns; a select with several ready cases picks one
\* at random, so a case that is ready again and again is taken in the end
SpecLoopLive ==
    /\ SpecLoop
    /\ \A c \in Chans :
          /\ WF_vars(MergeQuit(c))
          /\ WF_vars(ConvertCancel(c))
          /\ WF_vars(WorkerCall(c))
          /\ WF_vars(WorkerBroadcast(c))
          /\ SF_vars(WorkerExit(c))

\* the producer sends numbered frames into the empty channel
InitFlow ==
    /\ \E api \in BOOLEAN : NewUiSpectrogramManager(api)
    /\ producer = "numbering"
    /\ spectrogramChan = <<>>
    /\ now = StartTime
    /\ NoSubscribers
    /\ NoFreeze
    /\ PageStarted
    /\ PageAtRest

NextFlow == NextLoop \/ Enqueue

SpecFlow == InitFlow /\ [][NextFlow]_vars

---------------------------------------------------------------------------
(* The broadcaster *)

\* a subscriber registers
Subscribe(s) ==
    /\ s \notin subscribers
    /\ subscribers' = subscribers \cup {s}
    /\ UNCHANGED <<engineVars, eventSource, pageVars, dashboardVars, flowVars, clockVars, received,
                   outcome, sent, apiController, mutex, fieldVars,
                   publisherVars, callerVars>>

\* a subscriber leaves
Unsubscribe(s) ==
    /\ s \in subscribers
    /\ subscribers' = subscribers \ {s}
    /\ UNCHANGED <<engineVars, eventSource, pageVars, dashboardVars, flowVars, clockVars, received,
                   outcome, sent, apiController, mutex, fieldVars,
                   publisherVars, callerVars>>

\* variant: a broadcast that gives up at the first failed delivery
Broadcast_AbortOnError ==
    /\ Len(sent) < MaxItems
    /\ \E broken \in SUBSET subscribers :
          /\ received' = [s \in Subscribers |->
                            IF s \in subscribers /\ broken = {}
                            THEN Append(received[s], Len(sent) + 1)
                            ELSE received[s]]
          /\ outcome' = [s \in Subscribers |->
                           IF s \in broken THEN "failed"
                           ELSE IF s \in subscribers /\ broken = {} THEN "ok"
                           ELSE IF s \in subscribers THEN "skipped"
                           ELSE "none"]
          /\ subscribers' = subscribers \ broken
    /\ sent' = Append(sent, Len(sent) + 1)
    /\ UNCHANGED <<engineVars, eventSource, pageVars, dashboardVars, flowVars, clockVars,
                   apiController, mutex, fieldVars, publisherVars, callerVars>>

\* broadcast(value): one bounded attempt per registered subscriber; the
\* subscribers whose delivery fails are reported as failed and removed, the
\* others have the value delivered
Broadcast ==
    /\ Len(sent) < MaxItems
    /\ \E broken \in SUBSET subscribers :
          /\ received' = [s \in Subscribers |->
                            IF s \in subscribers \ broken
                            THEN Append(received[s], Len(sent) + 1)
                            ELSE received[s]]
          /\ outcome' = [s \in Subscribers |->
                           IF s \in broken THEN "failed"
                           ELSE IF s \in subscribers THEN "ok"
                           ELSE "none"]
          /\ subscribers' = subscribers \ broken
    /\ sent' = Append(sent, Len(sent) + 1)
    /\ UNCHANGED <<engineVars, eventSource, pageVars, dashboardVars, flowVars, clockVars,
                   apiController, mutex, fieldVars, publisherVars, callerVars>>

InitBroadcast ==
    /\ NewUiSpectrogramManager(TRUE)
    /\ producer = "saturating"
    /\ spectrogramChan = <<NoFrame>>
    /\ now = StartTime
    /\ NoSubscribers
    /\ NoFreeze
    /\ PageStarted
    /\ PageAtRest

NextBroadcast ==
    \/ \E s \in Subscribers : Subscribe(s) \/ Unsubscribe(s)
    \/ Broadcast

SpecBroadcast == InitBroadcast /\ [][NextBroadcast]_vars

---------------------------------------------------------------------------
(* The clock of the publisher *)

\* the seconds that pass while the model runs
MaxTicks == 2

\* a second passes on the clock read by time.Now()
Tick ==
    /\ now < StartTime + MaxTicks
    /\ now' = now + 1
    /\ UNCHANGED <<engineVars, eventSource, pageVars, dashboardVars, flowVars, warned, broadcasterVars,
                   apiController, mutex, fieldVars, publisherVars, callerVars>>

NextThrottle == NextFlow \/ Tick

\* the publisher of numbered frames under a running clock
SpecThrottle == InitFlow /\ [][NextThrottle]_vars

---------------------------------------------------------------------------
(* Vocabulary of the properties *)

\* the common names occurring in a sequence of recognitions
Names(rs) == {rs[i].commonName : i \in 1..Len(rs)}

\* number of recognitions named n in rs
Occ(n, rs) == Cardinality({i \in 1..Len(rs) : rs[i].commonName = n})

\* number of occurrences of the recognition r in rs
Copies(r, rs) == Cardinality({i \in 1..Len(rs) : rs[i] = r})

\* a step that is one call of filterAndSortResults
CallStep == returned = "idle" /\ returned' # "idle"

\* the minimum confidence of the specification's priority table, for the
\* set `unlocked` of unlocked species
PriorityMinimum(r, unlocked) ==
    CASE r.commonName = SINGING_BIRD_NAME -> thresholdPrefs.birdsingingthreshold
      [] r.commonName # SINGING_BIRD_NAME /\ r.commonName \in unlocked ->
             thresholdPrefs.unlockedthreshold
      [] OTHER -> thresholdPrefs.initialthreshold

\* the positions of a caller inside Stop
StopLabels == {"StopLock", "StopCheck", "StopClose", "StopWait", "StopClear",
               "StopNil"}

\* the positions of a caller between m.mutex.Lock() and the deferred Unlock
Critical == {"StartCheck", "StartMake", "StartPublish", "StartMark", "StopCheck",
             "StopClose", "StopWait", "StopClear", "StopNil", "IsRunningRead"}

\* the publisher goroutines that have not returned
liveWorkers == {c \in Chans : worker[c] \in {"select", "received", "broadcast"}}

\* a step of caller t
StepOf(t) == pc'[t] # pc[t]

\* a step in which caller t returns from the method it called
ReturnOf(t) == pc[t] # "idle" /\ pc'[t] = "idle"

---------------------------------------------------------------------------
(* C1 *)

\* C1: a batch that lacks the sentinel recognition makes filterAndSortResults
\* return an empty array and leaves unlockedSpecies as it was.
C1_NoSentinelEmptyAndNoUnlock ==
    [][(CallStep /\ SINGING_BIRD_NAME \notin Names(recs'))
          => (results' = <<>> /\ unlockedSpecies' = unlockedSpecies)]_vars

\* a call on a sentinel-free batch whose species passed the filter and would
\* have had the count to unlock
C1_Witness ==
    /\ returned = "silent"
    /\ SINGING_BIRD_NAME \notin Names(recs)
    /\ \E n \in Species :
          /\ n \in Names(filteredResults)
          /\ n \notin unlockedSpecies
          /\ Occ(n, previousDetections) + Occ(n, filteredResults)
                >= thresholdPrefs.mindetectionstounlock

---------------------------------------------------------------------------
(* C2 *)

\* C2: unlockedSpecies only grows: after every step it is a superset of what
\* it was before the step.
C2_UnlockedMonotonic == [][unlockedSpecies \subseteq unlockedSpecies']_vars

\* both species unlocked, and a later call made
C2_Witness ==
    /\ Species \subseteq unlockedSpecies
    /\ returned = "silent"
    /\ previousDetections # <<>>

---------------------------------------------------------------------------
(* C3 *)

\* the 2-frame rolling count of n in a call: the stored previous batch and
\* the filtered batch of the call
RollingCount(n) == Occ(n, previousDetections) + Occ(n, filteredResults')

\* C3: a species enters unlockedSpecies in exactly the call in which its
\* rolling count reaches mindetectionstounlock while it is still locked, and
\* in every call after that its recognitions are kept iff they reach
\* unlockedthreshold.
C3_UnlockExactlyAtCount ==
    [][CallStep =>
         \A n \in Species :
            /\ (n \in unlockedSpecies' /\ n \notin unlockedSpecies)
                 <=> /\ returned' = "emitted"
                     /\ n \notin unlockedSpecies
                     /\ RollingCount(n) >= thresholdPrefs.mindetectionstounlock
            /\ n \in unlockedSpecies =>
                 SelectSeq(filteredResults', LAMBDA r : r.commonName = n)
                   = SelectSeq(recs', LAMBDA r :
                        /\ r.commonName = n
                        /\ r.confidence >= thresholdPrefs.unlockedthreshold)]_vars

\* a species unlocked earlier is kept below initialthreshold
C3_Witness ==
    /\ returned # "idle"
    /\ \E i \in 1..Len(filteredResults) :
          /\ filteredResults[i].commonName \in Species \cap unlockedSpecies
          /\ filteredResults[i].confidence < thresholdPrefs.initialthreshold
    /\ \E n \in Species : n \notin unlockedSpecies /\ n \in Names(filteredResults)

---------------------------------------------------------------------------
(* C4 *)

\* C4 as claimed: the sentinel name never appears in the array returned by
\* filterAndSortResults.
C4_SentinelNeverReturned == SINGING_BIRD_NAME \notin Names(results)

\* C4, amended: the sentinel is unlocked from the start, so the returned
\* array holds every sentinel recognition that reached birdsingingthreshold:
\* the sentinel is in the result exactly when the gate passed, and a result
\* without it is empty.
C4_SentinelReturnedIffGatePassed ==
    /\ (SINGING_BIRD_NAME \in Names(results)) <=> (returned = "emitted")
    /\ returned # "emitted" => results = <<>>
    /\ \A i \in 1..Len(results) :
          results[i].commonName = SINGING_BIRD_NAME
             => results[i].confidence >= thresholdPrefs.birdsingingthreshold
    /\ Occ(SINGING_BIRD_NAME, results) = Occ(SINGING_BIRD_NAME, filteredResults)
          \/ returned # "emitted"

\* the gate passed while no species is unlocked: the result is the sentinel
C4_Witness ==
    /\ returned = "emitted"
    /\ Names(results) = {SINGING_BIRD_NAME}
    /\ Names(filteredResults) # {SINGING_BIRD_NAME}

---------------------------------------------------------------------------
(* C5 *)

ScenarioBatch == <<Rec(SINGING_BIRD_NAME, 80), Rec("Robin", 80)>>

ScenarioPolicy ==
    /\ thresholdPrefs.mindetectionstounlock = 2
    /\ thresholdPrefs.initialthreshold = 70
    /\ thresholdPrefs.birdsingingthreshold <= 80

\* C5: when the gate passes, the result holds exactly the recognitions of the
\* filtered batch whose species is unlocked after this call's unlock
\* evaluation; in the scenario (two detections to unlock, initial threshold
\* 0.7, sentinel and Robin at 0.8 twice) Robin is neither unlocked nor
\* returned by batch 1 and is unlocked and returned by batch 2.
C5_ResultIsUnlockedPartOfFiltered ==
    [][CallStep =>
         /\ returned' = "emitted" =>
               /\ Len(results') = Len(selectUnlocked(filteredResults', unlockedSpecies'))
               /\ \A r \in SoundRecognition :
                     Copies(r, results') =
                        IF r.commonName \in unlockedSpecies'
                        THEN Copies(r, filteredResults') ELSE 0
         /\ (ScenarioPolicy /\ recs' = ScenarioBatch
                /\ unlockedSpecies = InitUnlockedSpecies) =>
               IF previousDetections = ScenarioBatch
               THEN "Robin" \in unlockedSpecies' /\ "Robin" \in Names(results')
               ELSE previousDetections = <<>> =>
                      "Robin" \notin unlockedSpecies' /\ "Robin" \notin Names(results')]_vars

\* batch 2 of the scenario has just been processed
C5_Witness ==
    /\ ScenarioPolicy
    /\ recs = ScenarioBatch
    /\ previousDetections = ScenarioBatch
    /\ unlockedSpecies = {SINGING_BIRD_NAME, "Robin"}
    /\ history["Robin"] = 2
    /\ Rec("Robin", 80) \in {results[i] : i \in 1..Len(results)}

---------------------------------------------------------------------------
(* C6 *)

\* C6: the filter keeps a recognition iff its confidence reaches the minimum
\* of the priority table (sentinel: birdsingingthreshold; else unlocked when
\* the batch arrives: unlockedthreshold; else initialthreshold), the sentinel
\* being judged against birdsingingthreshold although it is unlocked.
C6_FilterByPriority ==
    [][CallStep =>
         /\ filteredResults' =
               SelectSeq(recs', LAMBDA r :
                            r.confidence >= PriorityMinimum(r, unlockedSpecies))
         /\ SINGING_BIRD_NAME \in unlockedSpecies]_vars

\* an unlocked sentinel dropped at a confidence an unlocked species passes
\* with, and a species unlocked by this call that was judged as locked
C6_Witness ==
    /\ returned # "idle"
    /\ \E i \in 1..Len(recs) :
          /\ recs[i].commonName = SINGING_BIRD_NAME
          /\ recs[i].confidence >= thresholdPrefs.unlockedthreshold
          /\ recs[i].confidence < thresholdPrefs.birdsingingthreshold
    /\ \E i \in 1..Len(recs) :
          /\ recs[i].commonName \in Species \cap unlockedSpecies
          /\ recs[i].confidence >= thresholdPrefs.unlockedthreshold
          /\ recs[i].confidence < thresholdPrefs.initialthreshold
          /\ recs[i] \in {filteredResults[j] : j \in 1..Len(filteredResults)}

---------------------------------------------------------------------------
(* C7 *)

\* C7: the returned array is ascending by confidence, and recognitions of
\* equal confidence are in the order they had in the input batch.
C7_SortedAscendingStable ==
    [][CallStep =>
         /\ \A i, j \in 1..Len(results') :
               i < j => results'[i].confidence <= results'[j].confidence
         /\ returned' = "emitted" =>
               \A c \in Confidences :
                  SelectSeq(results', LAMBDA r : r.confidence = c)
                    = SelectSeq(recs', LAMBDA r :
                         /\ r.confidence = c
                         /\ r.confidence >= PriorityMinimum(r, unlockedSpecies)
                         /\ r.commonName \in unlockedSpecies')]_vars

\* a result of three that the sort reordered and that holds a tie
C7_Witness ==
    /\ Len(results) = 3
    /\ results # filteredResults
    /\ results[1].confidence < results[3].confidence
    /\ \E i \in 1..2 :
          /\ results[i].confidence = results[i + 1].confidence
          /\ results[i].commonName # results[i + 1].commonName

---------------------------------------------------------------------------
(* C8 *)

\* C8: on a silent frame (the filtered batch lacks the sentinel) neither the
\* history update nor the unlock evaluation runs: previousDetections and
\* unlockedSpecies are unchanged.
C8_SilentFrameSkipsHistory ==
    [][(CallStep /\ SINGING_BIRD_NAME \notin Names(filteredResults'))
          => /\ previousDetections' = previousDetections
             /\ unlockedSpecies' = unlockedSpecies
             /\ results' = <<>>]_vars

\* a silent frame that held the sentinel below its threshold and a species
\* that passed the filter, after a batch had been stored
C8_Witness ==
    /\ returned = "silent"
    /\ SINGING_BIRD_NAME \in Names(recs)
    /\ filteredResults # <<>>
    /\ previousDetections # <<>>
    /\ Names(filteredResults) \cap Names(previousDetections) # {}

---------------------------------------------------------------------------
(* C9 *)

\* C9 as claimed: every batch replaces the stored previous reference by its
\* filtered set, so that the counts of a call come from the current filtered
\* batch and the filtered set of the batch right before it.
C9_ReplacedEveryBatch ==
    [][CallStep =>
         /\ previousDetections' = filteredResults'
         /\ returned' = "emitted" =>
               \A n \in CommonNames :
                  history'[n] = Occ(n, previousDetections) + Occ(n, filteredResults')]_vars

\* C9, amended: the count map of a call is built from exactly two batches,
\* the current filtered batch and the stored one, which is the filtered set
\* of the latest earlier batch that passed the gate: a batch that passes the
\* gate replaces the stored reference (no merge), a silent batch leaves it.
C9_TwoFrameWindowOverGatedBatches ==
    [][CallStep =>
         IF SINGING_BIRD_NAME \in Names(filteredResults')
         THEN /\ previousDetections' = filteredResults'
              /\ \A n \in CommonNames :
                    history'[n] = Occ(n, previousDetections) + Occ(n, filteredResults')
         ELSE previousDetections' = previousDetections]_vars

\* a count of 2 made of one recognition of each of the two batches
C9_Witness ==
    /\ returned = "emitted"
    /\ previousDetections = filteredResults
    /\ \E n \in Species : history[n] = 2 /\ Occ(n, filteredResults) = 1
    /\ \E n \in Species : history[n] = 1 /\ Occ(n, filteredResults) = 0

---------------------------------------------------------------------------
(* C10 *)

\* C10 as claimed: a batch without recognitions returns an empty result,
\* leaves unlockedSpecies unchanged and makes the stored previous batch empty.
C10_EmptyBatchEmptiesPrevious ==
    [][(CallStep /\ recs' = <<>>)
          => /\ results' = <<>>
             /\ unlockedSpecies' = unlockedSpecies
             /\ previousDetections' = <<>>]_vars

\* C10, amended: a batch without recognitions returns an empty result and
\* changes neither unlockedSpecies nor the stored previous batch.
C10_EmptyBatchChangesNothing ==
    [][(CallStep /\ recs' = <<>>)
          => /\ results' = <<>>
             /\ unlockedSpecies' = unlockedSpecies
             /\ previousDetections' = previousDetections]_vars

\* an empty batch processed while a batch is stored
C10_Witness ==
    /\ returned = "silent"
    /\ recs = <<>>
    /\ previousDetections # <<>>
    /\ Names(previousDetections) \cap Species # {}

---------------------------------------------------------------------------
(* C11 *)

\* the recognitions of rs at or above their minimum confidence for `unlocked`
Passing(rs, unlocked) ==
    SelectSeq(rs, LAMBDA r : r.confidence >= PriorityMinimum(r, unlocked))

\* C11: only the recognitions that passed the confidence filter of their own
\* batch are stored and counted: a call that stores a batch stores exactly the
\* passing recognitions, its counts are those of the stored previous batch plus
\* the passing recognitions, and a species it unlocks has the required number
\* of passing recognitions; a call that stores nothing unlocks nothing.
C11_OnlyPassingStoredAndCounted ==
    [][CallStep =>
         LET passing == Passing(recs', unlockedSpecies)
         IN  IF previousDetections' # previousDetections \/ returned' = "emitted"
             THEN /\ previousDetections' = passing
                  /\ \A n \in CommonNames :
                        history'[n] = Occ(n, previousDetections) + Occ(n, passing)
                  /\ \A n \in unlockedSpecies' \ unlockedSpecies :
                        Occ(n, previousDetections) + Occ(n, passing)
                           >= thresholdPrefs.mindetectionstounlock
             ELSE unlockedSpecies' = unlockedSpecies]_vars

\* a batch was stored whose recognitions of a locked species were below the
\* minimum: counted, they would have unlocked the species
C11_Witness ==
    /\ returned = "emitted"
    /\ \E n \in Species :
          /\ n \notin unlockedSpecies
          /\ Occ(n, recs) >= thresholdPrefs.mindetectionstounlock
          /\ Occ(n, previousDetections) = 0
          /\ history[n] = 0

---------------------------------------------------------------------------
(* C12 *)

\* no two recognitions of rs carry the same name
OnePerSpecies(rs) == \A n \in CommonNames : Occ(n, rs) <= 1

\* C12: updateHistory returns, for every name, the number of recognitions of
\* that name in the stored previous batch plus the number in the batch it is
\* given; when neither batch repeats a name, every name that occurs has count
\* 1 or 2.
C12_CountsAcrossBothBatches ==
    [][(returned = "idle" /\ returned' = "emitted") =>
         /\ \A n \in CommonNames :
               history'[n] = Occ(n, previousDetections) + Occ(n, filteredResults)
         /\ (OnePerSpecies(previousDetections) /\ OnePerSpecies(filteredResults))
               => \A n \in Names(previousDetections) \cup Names(filteredResults) :
                     history'[n] \in {1, 2}]_vars

\* updateHistory has counted two batches that held each name at most once:
\* one name occurred in both, another in one of them only
C12_Witness ==
    /\ returned = "emitted"
    /\ OnePerSpecies(previousDetections)
    /\ \A n \in CommonNames : history[n] - Occ(n, previousDetections) <= 1
    /\ \E n \in CommonNames : history[n] = 2
    /\ \E n \in CommonNames : history[n] = 1

---------------------------------------------------------------------------
(* C13 *)

\* a step that keeps what the session has accumulated: unlockedSpecies loses
\* no name, a stored previous batch is not emptied, and a step of the stream
\* (open, drop, reopen) changes neither
Persists ==
    /\ unlockedSpecies \subseteq unlockedSpecies'
    /\ previousDetections # <<>> => previousDetections' # <<>>
    /\ eventSource' # eventSource
          => UNCHANGED <<unlockedSpecies, previousDetections>>

\* C13 as claimed: at session start unlockedSpecies and the stored previous
\* batch are both empty, and every step, reconnections included, keeps them.
C13_BothEmptyAtStartAndKept ==
    /\ unlockedSpecies = {} /\ previousDetections = <<>>
    /\ [][Persists]_vars

\* C13, amended: at session start unlockedSpecies holds the sentinel name only
\* and the stored previous batch is empty, and every step, reconnections
\* included, keeps what they have accumulated.
C13_SentinelOnlyAtStartAndKept ==
    /\ unlockedSpecies = {SINGING_BIRD_NAME} /\ previousDetections = <<>>
    /\ [][Persists]_vars

\* the stream dropped after species were unlocked and a batch was stored, and
\* is being reconnected
C13_Witness ==
    /\ eventSource = "retrying"
    /\ Species \subseteq unlockedSpecies
    /\ previousDetections # <<>>

---------------------------------------------------------------------------
(* C14 *)

\* C14: Start() on a running manager returns nil at once and changes neither
\* the fields of the manager nor its channels and goroutines (no channel made,
\* no publisher started); and whenever a Start returns, isRunning is true and
\* the result is nil.
C14_StartOnRunningIsNoOp ==
    [][\A t \in Callers :
          /\ (pc[t] = "StartCheck" /\ StepOf(t) /\ isRunning)
                => /\ pc'[t] = "idle"
                   /\ ret'[t] = "nil"
                   /\ made'[t] = NilChan
                   /\ UNCHANGED <<fieldVars, publisherVars>>
          /\ (ReturnOf(t) /\ call[t] = "Start")
                => isRunning' /\ ret'[t] = "nil"]_vars

\* a Start, alone, returned as a no-op on the manager a first Start had
\* started: still one channel, one publisher
C14_Witness ==
    \E t \in Callers :
       /\ pc[t] = "idle" /\ call[t] = "Start" /\ ~overlap[t]
       /\ logged[t] = "already running" /\ ret[t] = "nil"
       /\ isRunning /\ chans = 1 /\ doneChan = 1
       /\ liveWorkers = {1}

---------------------------------------------------------------------------
(* C15 *)

\* C15: a Stop() that found the manager running returns, whatever the
\* publishers do, and when it has returned isRunning is false and doneChan
\* is nil.
C15_StopReturnsDespiteWorker ==
    \A t \in Callers :
       (pc[t] = "StopClose")
          ~> (pc[t] \notin StopLabels /\ ~isRunning /\ doneChan = NilChan)

\* a Stop returned on the timeout: its publisher is still in a broadcast
C15_Witness ==
    \E t \in Callers :
       /\ pc[t] = "idle" /\ call[t] = "Stop" /\ logged[t] = "timeout"
       /\ ~isRunning /\ doneChan = NilChan
       /\ \E c \in Chans : worker[c] = "broadcast" /\ closes[c] = 1

---------------------------------------------------------------------------
(* C16 *)

\* C16: Stop() on a manager that is not running returns at once and changes
\* neither the fields of the manager nor its channels and goroutines; a Stop
\* that closes does so on a channel that is not nil and was never closed, and
\* no channel is closed twice.
C16_StopOnStoppedIsNoOp ==
    [][/\ \A t \in Callers :
            /\ (pc[t] = "StopCheck" /\ StepOf(t) /\ ~isRunning)
                  => /\ pc'[t] = afterStop(t)
                     /\ mutex' = "none"
                     /\ UNCHANGED <<fieldVars, publisherVars>>
            /\ pc[t] = "StopClose" => (doneChan # NilChan /\ closes[doneChan] = 0)
       /\ \A c \in Chans : closes'[c] <= 1]_vars

\* both callers had a Stop return as a no-op after an earlier Stop had ended
\* the only run
C16_Witness ==
    /\ \A t \in Callers :
          pc[t] = "idle" /\ call[t] = "Stop" /\ logged[t] = "not running"
    /\ chans = 1 /\ closes[1] = 1
    /\ ~isRunning /\ doneChan = NilChan

---------------------------------------------------------------------------
(* C17 *)

\* C17 as claimed: at most one publisher goroutine is alive at any time, and
\* exactly one is whenever IsRunning() would return true.
C17_ExactlyOneWorkerWhileRunning ==
    /\ Cardinality(liveWorkers) <= 1
    /\ (mutex = "none" /\ isRunning) => Cardinality(liveWorkers) = 1

\* the first run's Stop gave up at the timeout with its publisher in a
\* broadcast, a second Start returned: two publishers take from the queue
C17_Witness ==
    /\ mutex = "none" /\ isRunning /\ doneChan = 2
    /\ closes[1] = 1 /\ worker[1] = "broadcast"
    /\ worker[2] = "select"
    /\ \E t \in Callers : call[t] = "Stop" /\ logged[t] = "timeout"

---------------------------------------------------------------------------
(* C18 *)

\* C18: a Start that is not a no-op makes a channel no earlier run had, and
\* the goroutines it starts listen to that channel; a channel is closed at
\* most once, by a Stop for which it is the manager's doneChan; the context
\* of a publisher is cancelled only after its own channel was closed.
C18_FreshSignalPerRun ==
    [][/\ \A t \in Callers :
            /\ (pc[t] = "StartMake" /\ StepOf(t))
                  => /\ doneChan' # NilChan
                     /\ closes[doneChan'] = 0
                     /\ mergedQuitChan[doneChan'] = "none"
                     /\ worker[doneChan'] = "none"
            /\ (pc[t] = "StartPublish" /\ StepOf(t))
                  => /\ mergedQuitChan'[doneChan] = "open"
                     /\ apiController
                           => (worker'[doneChan] = "select" /\ ctx'[doneChan] = "active")
                     /\ \A c \in Chans \ {doneChan} :
                           worker'[c] = worker[c] /\ ctx'[c] = ctx[c]
       /\ \A c \in Chans :
            /\ closes'[c] <= 1
            /\ closes'[c] # closes[c]
                  => \E t \in Callers :
                        pc[t] = "StopClose" /\ StepOf(t) /\ doneChan = c /\ isRunning
            /\ ctx'[c] = "cancelled" => closes'[c] = 1
            /\ mergedQuitChan'[c] = "closed" => closes'[c] = 1]_vars

\* the first run was stopped and its publisher has exited on its cancelled
\* context; the second run's publisher works on, its channel open
C18_Witness ==
    /\ chans = 2 /\ isRunning /\ doneChan = 2
    /\ closes[1] = 1 /\ ctx[1] = "cancelled" /\ worker[1] = "exited"
    /\ closes[2] = 0 /\ ctx[2] = "active" /\ worker[2] = "broadcast"

---------------------------------------------------------------------------
(* C19 *)

---------------------------------------------------------------------------
(* C20 *)

\* C20: a caller between Lock and Unlock holds the mutex, so no two callers
\* are there together; isRunning and doneChan change only in a step of the
\* caller holding the mutex; and what IsRunning reads is the state between
\* two calls: isRunning is true exactly when doneChan is a channel, and that
\* channel is not closed.
C20_FlagAndHandleUnderLock ==
    [][/\ \A t \in Callers : pc[t] \in Critical => mutex = t
       /\ fieldVars' # fieldVars
             => (mutex \in Callers /\ StepOf(mutex) /\ pc[mutex] \in Critical)
       /\ \A t \in Callers :
             (pc[t] = "IsRunningRead" /\ StepOf(t))
                => /\ isRunning <=> doneChan # NilChan
                   /\ isRunning => closes[doneChan] = 0]_vars

\* IsRunning returned true to one caller while the other, in Stop, waits for
\* the mutex
C20_Witness ==
    \E t, u \in Callers :
       /\ pc[t] = "idle" /\ call[t] = "IsRunning" /\ ret[t] = "true"
       /\ pc[u] = "StopLock" /\ call[u] = "Stop"
       /\ isRunning

---------------------------------------------------------------------------
(* C21 *)

\* C21: a publisher whose done channel was closed by Stop exits in the end,
\* also when the channel of frames never runs empty.
C21_CancelledWorkerExits ==
    \A c \in Chans :
       (closes[c] > 0 /\ c \in liveWorkers) ~> (worker[c] = "exited")

\* a publisher has exited on its cancelled context while a frame was waiting
\* in the channel, and the Stop that cancelled it has returned
C21_Witness ==
    \E c \in Chans :
       /\ worker[c] = "exited" /\ closes[c] = 1
       /\ spectrogramChan # <<>>
       /\ \E t \in Callers :
             pc[t] = "idle" /\ call[t] = "Stop" /\ logged[t] = "stopped"

---------------------------------------------------------------------------
(* C22 *)

\* the positions of a caller inside Start
StartLabels == {"StartLock", "StartCheck", "StartMake", "StartPublish",
                "StartMark"}

\* C22: when a broadcast returns an error the publisher is back at its
\* select, still counted by the WaitGroup, with the channel of frames as it
\* was; a publisher exits only from its select and on a cancelled context.
C22_FailedBroadcastKeepsLoop ==
    [][\A c \in Chans :
          /\ (worker[c] = "broadcast" /\ failed' # failed /\ item[c] \in failed')
                => /\ worker'[c] = "select"
                   /\ wg' = wg
                   /\ spectrogramChan' = spectrogramChan
          /\ (worker'[c] = "exited" /\ worker[c] # "exited")
                => (worker[c] = "select" /\ ctx[c] = "cancelled")]_vars

\* the only publisher ever started had its first two broadcasts fail, one
\* after the other, and is at its select, not cancelled
C22_Witness ==
    /\ chans = 1 /\ closes[1] = 0
    /\ handed = <<1, 2>>
    /\ {1, 2} \subseteq failed
    /\ worker[1] = "select" /\ ctx[1] = "active"

---------------------------------------------------------------------------
(* C23 *)

\* C23 as claimed: the frames are handed to the broadcaster in the order the
\* producer sent them, each once: the k-th call of BroadcastSpectrogram is
\* made with the k-th frame.
C23_HandedInOrder == \A k \in 1..Len(handed) : handed[k] = k

\* the second frame was handed to the broadcaster first: by the second run's
\* publisher, while the publisher that outlived the first run's Stop holds
\* the first frame
C23_Witness ==
    /\ handed = <<2>>
    /\ item[1] = 1 /\ worker[1] = "received" /\ closes[1] = 1
    /\ item[2] = 2 /\ worker[2] = "broadcast"

---------------------------------------------------------------------------
(* C29 *)

\* a Stop has returned, the manager is stopped and no call is in progress
Quiet ==
    /\ chans > 0
    /\ ~isRunning
    /\ \A t \in Callers : pc[t] \notin StartLabels \cup StopLabels

\* C29 as claimed: no publisher calls BroadcastSpectrogram between the return
\* of a Stop and the next Start.
C29_NoBroadcastWhileStopped ==
    [][\A c \in Chans :
          (worker[c] = "received" /\ worker'[c] = "broadcast") => ~Quiet]_vars

\* a publisher is inside a broadcast it began after the Stop of its run had
\* given up waiting and returned
C29_Witness ==
    /\ Quiet
    /\ chans = 1 /\ closes[1] = 1
    /\ worker[1] = "broadcast"
    /\ \E t \in Callers : call[t] = "Stop" /\ logged[t] = "timeout"

---------------------------------------------------------------------------
(* C30 *)

\* C30 as claimed: a Stop gives up at the timeout only if the publisher of
\* the run it is stopping has not exited.
C30_TimeoutOnlyForOwnWorker ==
    [][\A t \in Callers :
          (pc[t] = "StopWait" /\ StepOf(t) /\ logged'[t] = "timeout")
             => doneChan \in liveWorkers]_vars

\* the second run's publisher has exited and the second Stop still gave up
\* at the timeout: the first run's publisher is in its broadcast
C30_Witness ==
    /\ chans = 2 /\ ~isRunning
    /\ worker[2] = "exited" /\ worker[1] = "broadcast"
    /\ closes[1] = 1 /\ closes[2] = 1
    /\ \E t \in Callers :
          pc[t] = "idle" /\ call[t] = "Stop" /\ logged[t] = "timeout"

---------------------------------------------------------------------------
(* C24 *)

\* C24 as claimed: any two warnings about a failed broadcast are at least a
\* minute apart.
C24_OneWarningPerMinute ==
    \A i, j \in DOMAIN warned : i < j => warned[j] - warned[i] >= Minute

\* two broadcasts failed within the same second, a multiple of 60, and each
\* was logged
C24_Witness ==
    /\ Len(warned) >= 2
    /\ warned[1] = warned[2]
    /\ warned[1] % Minute = 0
    /\ {1, 2} \subseteq failed

---------------------------------------------------------------------------
(* C28 *)

\* C28: a broadcast delivers its value to every subscriber registered at the
\* time, except those whose own delivery failed, whether or not a delivery
\* failed.
C28_OthersStillReceive ==
    [][sent' # sent =>
          \A s \in subscribers :
              \/ outcome'[s] = "failed"
              \/ received'[s] = Append(received[s], sent'[Len(sent')])]_vars

\* the last broadcast failed for one subscriber and reached two others
C28_Witness ==
    /\ sent # <<>>
    /\ \E s \in Subscribers : outcome[s] = "failed"
    /\ Cardinality({s \in Subscribers :
                       /\ outcome[s] = "ok"
                       /\ received[s] # <<>>
                       /\ received[s][Len(received[s])] = sent[Len(sent)]}) = 2

---------------------------------------------------------------------------
(* C25 *)

\* the request of fetchSoundIdConfig has succeeded or failed
Settled == fetch \in {"loaded", "failed"}

\* a step of the 'merlin' listener
Delivery == delivered' # delivered

\* C25: when the fetch of the settings fails the values held are kept and
\* startUp() goes on: its next step connects both streams, and the batches
\* that arrive are processed, under the values kept.
C25_FetchFailureKeepsPolicy ==
    [][/\ (fetch = "pending" /\ fetch' = "failed")
            => /\ thresholdPrefs' = thresholdPrefs
               /\ startUp = "awaiting" => startUp' = "settled"
       /\ (startUp = "settled" /\ startUp' # "settled")
            => /\ startUp' = "done"
               /\ eventSource' = "connecting"
               /\ spectrogramEventSource' = "connecting"
       /\ (fetch = "failed" /\ Delivery /\ event' = "batch")
            => /\ thresholdPrefs' = DefaultPrefs
               /\ dropped' = dropped
               /\ lastLog' \in {"none", "debug"}]_vars

\* the fetch failed, both streams were connected and a batch has been
\* processed under the defaults
C25_Witness ==
    /\ fetch = "failed"
    /\ startUp = "done"
    /\ thresholdPrefs = DefaultPrefs
    /\ eventSource = "open"
    /\ spectrogramEventSource = "connecting"
    /\ event = "batch"
    /\ delivered = 1 /\ dropped = 0

---------------------------------------------------------------------------
(* C26 *)

\* C26: the settings are requested once; thresholdPrefs is assigned only when
\* that request succeeds, and then a whole SoundIdConfig; an event source is
\* created only after the request has settled; a batch is processed only
\* after it has settled, and from then on thresholdPrefs does not change.
C26_PolicyFetchedOnceBeforeStreams ==
    [][/\ fetch' = "pending" => fetch \in {"none", "pending"}
       /\ thresholdPrefs' # thresholdPrefs
            => /\ fetch = "pending" /\ fetch' = "loaded"
               /\ thresholdPrefs' \in Policies
       /\ (eventSource' # "null" \/ spectrogramEventSource' # "null") => Settled'
       /\ Delivery => Settled
       /\ Settled => thresholdPrefs' = thresholdPrefs]_vars

\* two batches were processed, both under the settings loaded at start-up
C26_Witness ==
    /\ fetch = "loaded"
    /\ thresholdPrefs \in Policies
    /\ delivered = 2 /\ dropped = 0
    /\ emitted # <<>>
    /\ speciesSummary # <<>>

---------------------------------------------------------------------------
(* C27 *)

\* the envelope is not an object with a list of predictions
Malformed(e) == e \in {"text", "value", "bare"}

---------------------------------------------------------------------------
(* C31 *)

\* the batch holds the sentinel, and only below birdsingingthreshold
FaintSentinel(rs) ==
    /\ SINGING_BIRD_NAME \in Names(rs)
    /\ \A i \in 1..Len(rs) :
          rs[i].commonName = SINGING_BIRD_NAME
             => rs[i].confidence < thresholdPrefs.birdsingingthreshold

\* C31: a batch whose sentinel recognitions are all below birdsingingthreshold
\* makes filterAndSortResults return an empty array and leaves unlockedSpecies
\* and previousDetections as they were, whatever else the batch holds.
C31_FaintSentinelIsNoSentinel ==
    [][(CallStep /\ FaintSentinel(recs'))
          => /\ results' = <<>>
             /\ unlockedSpecies' = unlockedSpecies
             /\ previousDetections' = previousDetections]_vars

\* a call on a batch with a faint sentinel, an unlocked species that passed
\* the filter and a stored previous batch
C31_Witness ==
    /\ returned = "silent"
    /\ FaintSentinel(recs)
    /\ previousDetections # <<>>
    /\ \E n \in Species : n \in unlockedSpecies /\ n \in Names(filteredResults)
    /\ \E n \in Species : n \notin unlockedSpecies /\ n \in Names(filteredResults)

---------------------------------------------------------------------------
(* C32 *)

\* C32: with mindetectionstounlock at 3 or more, a call on a batch that names
\* no species twice, after a stored batch that names none twice, unlocks
\* nothing and returns recognitions of species unlocked before the call only;
\* the batch stored by such a call names no species twice either.
C32_NoUnlockAtThreeWithSingles ==
    [][(/\ CallStep
        /\ thresholdPrefs.mindetectionstounlock >= 3
        /\ OnePerSpecies(previousDetections)
        /\ OnePerSpecies(recs'))
          => /\ unlockedSpecies' = unlockedSpecies
             /\ Names(results') \subseteq unlockedSpecies
             /\ OnePerSpecies(previousDetections')]_vars

\* three detections needed; a species was in the stored batch and is in the
\* batch of this call, once each, and stays locked: the sentinel alone is
\* returned
C32_Witness ==
    /\ returned = "emitted"
    /\ thresholdPrefs.mindetectionstounlock >= 3
    /\ OnePerSpecies(recs)
    /\ unlockedSpecies = InitUnlockedSpecies
    /\ \E n \in Species : history[n] = 2
    /\ Names(results) = {SINGING_BIRD_NAME}

---------------------------------------------------------------------------
(* C33 *)

\* C33: after a failed fetch thresholdPrefs holds the defaults; while it does,
\* no envelope unlocks a species or changes the species summary, and nothing
\* but the sentinel is returned.
C33_DefaultsUnlockNothing ==
    [][/\ fetch' = "failed" => thresholdPrefs' = DefaultPrefs
       /\ (thresholdPrefs = DefaultPrefs /\ Delivery)
            => /\ unlockedSpecies' = unlockedSpecies
               /\ speciesSummary' = speciesSummary
               /\ Names(emitted') \subseteq {SINGING_BIRD_NAME}]_vars

\* under the defaults two batches passed the gate with a species at
\* confidence 1.0 in both; it is still locked and the summary is empty
C33_Witness ==
    /\ fetch = "failed"
    /\ thresholdPrefs = DefaultPrefs
    /\ delivered = 2 /\ dropped = 0
    /\ birdSinging.indicatorCount >= 2
    /\ emitted # <<>>
    /\ \E n \in Species : n \in Names(previousDetections) /\ n \notin unlockedSpecies
    /\ unlockedSpecies = InitUnlockedSpecies
    /\ speciesSummary = <<>>

---------------------------------------------------------------------------
(* C34 *)

\* the names of the entries of a species summary
SummaryNames(sm) == {sm[i].common_name : i \in 1..Len(sm)}

\* the count the summary holds for n, 0 when it has no entry for n
CountOf(sm, n) ==
    IF n \in SummaryNames(sm)
    THEN sm[CHOOSE i \in 1..Len(sm) : sm[i].common_name = n].count
    ELSE 0

\* the confidence the summary shows for n
ConfidenceOf(sm, n) ==
    sm[CHOOSE i \in 1..Len(sm) : sm[i].common_name = n].confidence

\* the confidence of the last recognition named n in rs
LastConfidence(n, rs) ==
    LET last == CHOOSE i \in 1..Len(rs) :
                   /\ rs[i].commonName = n
                   /\ \A j \in 1..Len(rs) : rs[j].commonName = n => j <= i
    IN  rs[last].confidence

\* C34: the species summary has one entry per name at most and none for the
\* sentinel; no step removes a name; every entry has count >= 1 and
\* maxConfidence >= confidence; the count of a species grows by the number of
\* its recognitions in the array filterAndSortResults returned, and by nothing
\* else; after a batch that emitted the species its confidence is that of the
\* last of these recognitions.
C34_SummaryCountsEmissions ==
    [][/\ \A i, j \in 1..Len(speciesSummary') :
             i # j => speciesSummary'[i].common_name # speciesSummary'[j].common_name
       /\ SINGING_BIRD_NAME \notin SummaryNames(speciesSummary')
       /\ SummaryNames(speciesSummary) \subseteq SummaryNames(speciesSummary')
       /\ \A i \in 1..Len(speciesSummary') :
             /\ speciesSummary'[i].count >= 1
             /\ speciesSummary'[i].maxConfidence >= speciesSummary'[i].confidence
       /\ \A n \in Species :
             /\ CountOf(speciesSummary', n)
                  = CountOf(speciesSummary, n)
                      + (IF Delivery THEN Occ(n, emitted') ELSE 0)
             /\ (Delivery /\ n \in Names(emitted'))
                  => ConfidenceOf(speciesSummary', n) = LastConfidence(n, emitted')]_vars

\* two entries; one species was emitted in two batches, three times in all,
\* the last time below its highest confidence
C34_Witness ==
    /\ Len(speciesSummary) = 2
    /\ delivered = 2
    /\ \E i \in 1..Len(speciesSummary) :
          /\ speciesSummary[i].count = 3
          /\ speciesSummary[i].maxConfidence > speciesSummary[i].confidence
          /\ speciesSummary[i].common_name \in Names(emitted)

---------------------------------------------------------------------------
(* C35 *)

\* a step in which a list of predictions went through handleNewPrediction
BatchStep == Delivery /\ event' = "batch" /\ dropped' = dropped

\* C35 as claimed: an empty result sets both counters to 0; any other result
\* adds one to indicatorCount; a result of the sentinel alone adds one to
\* hearingCount and a result with a species sets it to 0; hearingCount is
\* never above indicatorCount.
C35_CountersCountBatches ==
    [][BatchStep =>
         /\ emitted' = <<>>
              => birdSinging' = [indicatorCount |-> 0, hearingCount |-> 0]
         /\ emitted' # <<>>
              => birdSinging'.indicatorCount = birdSinging.indicatorCount + 1
         /\ (emitted' # <<>> /\ Names(emitted') = {SINGING_BIRD_NAME})
              => birdSinging'.hearingCount = birdSinging.hearingCount + 1
         /\ Names(emitted') \cap Species # {}
              => birdSinging'.hearingCount = 0
         /\ birdSinging'.hearingCount <= birdSinging'.indicatorCount]_vars

\* C35 amended: an empty result sets both counters to 0; any other result
\* adds to indicatorCount the number of sentinel recognitions it holds; a
\* result that is one sentinel recognition adds one to hearingCount and every
\* other result that is not empty sets it to 0; hearingCount is never above
\* indicatorCount, and an envelope that is dropped changes neither.
C35_CountersCountSentinels ==
    [][/\ BatchStep =>
            /\ emitted' = <<>>
                 => birdSinging' = [indicatorCount |-> 0, hearingCount |-> 0]
            /\ emitted' # <<>>
                 => /\ birdSinging'.indicatorCount
                         = birdSinging.indicatorCount
                             + Occ(SINGING_BIRD_NAME, emitted')
                    /\ birdSinging'.hearingCount
                         = IF Len(emitted') = 1
                           THEN birdSinging.hearingCount + 1
                           ELSE 0
       /\ birdSinging'.hearingCount <= birdSinging'.indicatorCount
       /\ ~BatchStep => birdSinging' = birdSinging]_vars

\* one batch whose result holds the sentinel twice and nothing else:
\* indicatorCount is 2 and hearingCount 0
C35_Witness ==
    /\ delivered = 1
    /\ Len(emitted) = 2
    /\ Names(emitted) = {SINGING_BIRD_NAME}
    /\ birdSinging = [indicatorCount |-> 2, hearingCount |-> 0]

---------------------------------------------------------------------------
(* C36 *)

\* the species of the result rs that have no entry in the summary sm
NewSpecies(rs, sm) == (Names(rs) \ {SINGING_BIRD_NAME}) \ SummaryNames(sm)

\* the confidence of the first recognition named n in rs
FirstConfidence(n, rs) ==
    LET first == CHOOSE i \in 1..Len(rs) :
                    /\ rs[i].commonName = n
                    /\ \A j \in 1..Len(rs) : rs[j].commonName = n => i <= j
    IN  rs[first].confidence

\* after the step the k new species are the first k entries, and the entries
\* behind them are those of before, in their order
NewAtHead(k) ==
    /\ Len(speciesSummary') = k + Len(speciesSummary)
    /\ {speciesSummary'[i].common_name : i \in 1..k}
          = NewSpecies(emitted', speciesSummary)
    /\ \A i \in 1..Len(speciesSummary) :
          speciesSummary'[k + i].common_name = speciesSummary[i].common_name

\* C36 as claimed: when a batch emits two or more species new to the summary,
\* they are its first entries after the batch, each entry's confidence at
\* least that of the entry behind it, and the older entries follow in their
\* order.
C36_NewSpeciesByConfidence ==
    [][BatchStep =>
         LET k == Cardinality(NewSpecies(emitted', speciesSummary))
         IN  k >= 2 =>
               /\ NewAtHead(k)
               /\ \A i \in 1..(k - 1) :
                     speciesSummary'[i].confidence
                        >= speciesSummary'[i + 1].confidence]_vars

\* C36 amended: the new species are the first entries after the batch, in
\* descending order of the confidence of their first recognition in the
\* result, which is the confidence of the entry when the result holds the
\* species once; the older entries follow in their order.
C36_NewSpeciesByFirstConfidence ==
    [][BatchStep =>
         LET k == Cardinality(NewSpecies(emitted', speciesSummary))
         IN  k >= 2 =>
               /\ NewAtHead(k)
               /\ \A i \in 1..(k - 1) :
                     FirstConfidence(speciesSummary'[i].common_name, emitted')
                        >= FirstConfidence(speciesSummary'[i + 1].common_name,
                                           emitted')
               /\ \A i \in 1..k :
                     Occ(speciesSummary'[i].common_name, emitted') = 1
                        => speciesSummary'[i].confidence
                             = FirstConfidence(speciesSummary'[i].common_name,
                                               emitted')]_vars

\* the second batch emitted two new species, one of them twice: the entry of
\* the species emitted twice shows its later, higher confidence and stands
\* behind the other new entry and ahead of the entry of the first batch
C36_Witness ==
    /\ delivered = 2
    /\ Len(speciesSummary) = 3
    /\ speciesSummary[3].common_name \notin Names(emitted)
    /\ speciesSummary[1].count = 1
    /\ speciesSummary[2].count = 2
    /\ speciesSummary[1].confidence < speciesSummary[2].confidence

---------------------------------------------------------------------------
(* C37 *)

\* C37: once the cleanup of onMount has run, neither the detection nor the
\* spectrogram event source exists, whatever startUp() and the settings
\* request still had to do when it ran.
C37_NoSourceAfterCleanup ==
    destroyed => /\ eventSource = "null"
                 /\ spectrogramEventSource = "null"

\* the cleanup ran while the settings request was pending, the request then
\* settled and startUp() went on to open both connections
C37_Witness ==
    /\ destroyed
    /\ startUp = "done"
    /\ fetch \in {"loaded", "failed"}
    /\ eventSource # "null"
    /\ spectrogramEventSource # "null"

---------------------------------------------------------------------------
(* C38 *)

=============================================================================
